---------------------------- MODULE Spec2Model ----------------------------
(***************************************************************************)
(* The audio-transcription pipeline of backend/core/intelligence/sound:    *)
(* AudioSense.transcribe and the components it composes.                   *)
(*                                                                         *)
(* Strings are sequences of one-character strings, so that suffix          *)
(* extraction, lower-casing and substring tests are computed and not       *)
(* assumed.  An optional value (Python's None) is a sequence of length 0   *)
(* or 1.  Durations are integers in milliseconds, as pydub's len().  A     *)
(* speed factor is kept in tenths (10 is 1.0, 15 is 1.5).                  *)
(***************************************************************************)
EXTENDS Integers, Sequences, FiniteSets, TLC

(***************************************************************************)
(* Optional values                                                         *)
(***************************************************************************)
None == <<>>

Some(x) == <<x>>

IsNone(o) == Len(o) = 0

Get(o) == o[1]

(***************************************************************************)
(* Strings                                                                 *)
(***************************************************************************)
UpperLetters ==
    <<"A","B","C","D","E","F","G","H","I","J","K","L","M",
      "N","O","P","Q","R","S","T","U","V","W","X","Y","Z">>

LowerLetters ==
    <<"a","b","c","d","e","f","g","h","i","j","k","l","m",
      "n","o","p","q","r","s","t","u","v","w","x","y","z">>

\* str.lower() on one character
LowerChar(c) ==
    IF \E k \in 1..Len(UpperLetters) : UpperLetters[k] = c
    THEN LowerLetters[CHOOSE k \in 1..Len(UpperLetters) : UpperLetters[k] = c]
    ELSE c

\* str.lower()
Lower(s) == [k \in 1..Len(s) |-> LowerChar(s[k])]

\* `needle in s` for strings
Contains(s, needle) ==
    \E k \in 0..(Len(s) - Len(needle)) :
        \A j \in 1..Len(needle) : s[k + j] = needle[j]

\* s.rfind(c) + 1, 0 when c does not occur
LastIndexOf(s, c) ==
    IF \E k \in 1..Len(s) : s[k] = c
    THEN CHOOSE k \in 1..Len(s) :
            s[k] = c /\ \A j \in (k + 1)..Len(s) : s[j] # c
    ELSE 0

\* pathlib drops the slashes a path ends with
RECURSIVE StripTrailingSlashes(_)
StripTrailingSlashes(s) ==
    IF Len(s) > 0 /\ s[Len(s)] = "/"
    THEN StripTrailingSlashes(SubSeq(s, 1, Len(s) - 1))
    ELSE s

\* pathlib: the final path component
PathName(s) ==
    LET path == StripTrailingSlashes(s)
    IN  SubSeq(path, LastIndexOf(path, "/") + 1, Len(path))

\* pathlib.Path(s).suffix: from the last dot of the final component, unless
\* that dot is the component's first or last character
PathSuffix(s) ==
    LET name == PathName(s)
        dot  == LastIndexOf(name, ".")
    IN  IF 1 < dot /\ dot < Len(name) THEN SubSeq(name, dot, Len(name)) ELSE <<>>

(***************************************************************************)
(* constants.py                                                            *)
(***************************************************************************)
MP3 == <<"m","p","3">>

MP4 == <<"m","p","4">>

M4A == <<"m","4","a">>

WAV == <<"w","a","v">>

FLAC == <<"f","l","a","c">>

OGG == <<"o","g","g">>

WEBM == <<"w","e","b","m">>

MAX_CHUNK_DURATION_MS == 30 * 60 * 1000

OPTIMAL_EXPORT_FORMAT == OGG

SUPPORTED_AUDIO_FORMATS ==
    { <<".">> \o f : f \in {MP3, MP4, M4A, WAV, FLAC, OGG, WEBM} }

(***************************************************************************)
(* format_detection.py: AudioFormatDetector                                *)
(***************************************************************************)
\* the suffix is returned without the test against the supported formats
ExtractAudioFormatFromFilenameAnySuffix(filename) ==
    IF IsNone(filename) \/ Get(filename) = <<>>
    THEN None
    ELSE LET suffix == Lower(PathSuffix(Get(filename)))
         IN  IF suffix # <<>>
             THEN Some(SubSeq(suffix, 2, Len(suffix)))
             ELSE None

ExtractAudioFormatFromFilename(filename) ==
    IF IsNone(filename) \/ Get(filename) = <<>>
    THEN None
    ELSE LET suffix == Lower(PathSuffix(Get(filename)))
         IN  IF suffix \in SUPPORTED_AUDIO_FORMATS
             THEN Some(SubSeq(suffix, 2, Len(suffix)))
             ELSE None

\* the tests in the opposite order: wav, mp3, then mp4 or m4a
ExtractAudioFormatFromContentTypeWavFirst(content_type) ==
    IF IsNone(content_type) \/ Get(content_type) = <<>>
    THEN None
    ELSE LET ct == Lower(Get(content_type))
         IN  IF Contains(ct, WAV) THEN Some(WAV)
             ELSE IF Contains(ct, MP3) THEN Some(MP3)
             ELSE IF Contains(ct, MP4) \/ Contains(ct, M4A) THEN Some(M4A)
             ELSE None

ExtractAudioFormatFromContentType(content_type) ==
    IF IsNone(content_type) \/ Get(content_type) = <<>>
    THEN None
    ELSE LET ct == Lower(Get(content_type))
         IN  IF Contains(ct, MP4) \/ Contains(ct, M4A) THEN Some(M4A)
             ELSE IF Contains(ct, MP3) THEN Some(MP3)
             ELSE IF Contains(ct, WAV) THEN Some(WAV)
             ELSE None

\* the content type asked before the filename
DetermineAudioFormatContentTypeFirst(filename, content_type) ==
    LET format_from_filename == ExtractAudioFormatFromFilename(filename)
        format_from_content_type == ExtractAudioFormatFromContentType(content_type)
    IN  IF ~IsNone(format_from_content_type) THEN Get(format_from_content_type)
        ELSE IF ~IsNone(format_from_filename) THEN Get(format_from_filename)
        ELSE MP3

DetermineAudioFormat(filename, content_type) ==
    LET format_from_filename == ExtractAudioFormatFromFilename(filename)
        format_from_content_type == ExtractAudioFormatFromContentType(content_type)
    IN  IF ~IsNone(format_from_filename) THEN Get(format_from_filename)
        ELSE IF ~IsNone(format_from_content_type) THEN Get(format_from_content_type)
        ELSE MP3

(***************************************************************************)
(* audio_processing.py: AudioSegmenter                                     *)
(***************************************************************************)
\* the chunk duration without the ceiling
CalculateOptimalChunkDurationUnclamped(audio_duration_ms) == audio_duration_ms

CalculateOptimalChunkDuration(audio_duration_ms) ==
    IF audio_duration_ms <= MAX_CHUNK_DURATION_MS
    THEN audio_duration_ms
    ELSE MAX_CHUNK_DURATION_MS

\* list(range(start, stop, step)) for step # 0
RECURSIVE Range(_, _, _)
Range(start, stop, step) ==
    IF (step > 0 /\ start >= stop) \/ (step < 0 /\ start <= stop)
    THEN <<>>
    ELSE <<start>> \o Range(start + step, stop, step)

Min(a, b) == IF a <= b THEN a ELSE b

\* a slice whose ends are not clamped to the audio's length
SliceUnclamped(audio_len, i, j) == [from |-> i, to |-> j]

\* pydub AudioSegment.__getitem__ on audio[i : j] for 0 <= i <= j: both ends
\* are clamped to the audio's length.  A piece of audio is the time range
\* [from, to) it covers.
Slice(audio_len, i, j) ==
    [from |-> Min(i, audio_len), to |-> Min(j, audio_len)]

SegLen(segment) == segment.to - segment.from

\* [audio[i : i + chunk_size_ms] for i in range(0, len(audio), chunk_size_ms)]
SplitAudioIntoSegments(audio_len, chunk_size_ms) ==
    LET starts == Range(0, audio_len, chunk_size_ms)
    IN  [k \in 1..Len(starts) |->
            Slice(audio_len, starts[k], starts[k] + chunk_size_ms)]

(***************************************************************************)
(* audio_processing.py: AudioExporter                                      *)
(***************************************************************************)
\* (file_size_bytes / 1024 / 1024) * 8 * 60 * 1000.  Every step of this float
\* expression is exact for sizes below 2^36 bytes (two divisions by a power
\* of two, then products whose integer mantissa stays below 2^53), so the
\* value is the rational file_size_bytes * 480000 / 1048576, that is
\* file_size_bytes * 1875 / 4096, kept as whole + rem/4096.
EstimatedDurationMs(file_size_bytes) ==
    LET q == file_size_bytes \div 4096
        r == file_size_bytes % 4096
    IN  [whole |-> q * 1875 + (r * 1875) \div 4096,
         rem   |-> (r * 1875) % 4096]

\* est < n: the ceiling itself excluded
EstimateAtMostStrict(est, n) == est.whole < n

\* est <= n for an integer n
EstimateAtMost(est, n) == est.whole < n \/ (est.whole = n /\ est.rem = 0)

ShouldUseM4aFastPath(detected_format, speed_up_factor, file_size_bytes) ==
    /\ detected_format = M4A
    /\ speed_up_factor = 10
    /\ EstimateAtMost(EstimatedDurationMs(file_size_bytes), MAX_CHUNK_DURATION_MS)

\* every source exported to OPTIMAL_EXPORT_FORMAT
DetermineOptimalExportFormatConstant(detected_audio_format) ==
    OPTIMAL_EXPORT_FORMAT

DetermineOptimalExportFormat(detected_audio_format) ==
    CASE detected_audio_format = M4A  -> OGG
      [] detected_audio_format = MP4  -> OGG
      [] detected_audio_format = MP3  -> MP4
      [] detected_audio_format = WAV  -> OGG
      [] detected_audio_format = FLAC -> OGG
      [] detected_audio_format = OGG  -> OGG
      [] detected_audio_format = WEBM -> OGG
      [] OTHER -> OGG

K64 == <<"6","4","k">>

K48 == <<"4","8","k">>

K96 == <<"9","6","k">>

\* duration_minutes (len(segment) / 60000) is passed as the segment's length in
\* milliseconds
DetermineOptimalBitrate(detected_audio_format, duration_minutes) ==
    IF detected_audio_format \in {M4A, MP4} THEN K64
    ELSE IF detected_audio_format = OGG THEN K48
    ELSE K96

\* export_audio_to_optimal_format: the exported bytes are the segment's time
\* range encoded with the chosen codec and bitrate
ExportAudioToOptimalFormat(segment, detected_audio_format) ==
    [codec   |-> DetermineOptimalExportFormat(detected_audio_format),
     bitrate |-> DetermineOptimalBitrate(detected_audio_format, SegLen(segment)),
     from    |-> segment.from,
     to      |-> segment.to]

(***************************************************************************)
(* transcription.py: TranscriptionAssembler                                *)
(***************************************************************************)
\* insert pair into a list sorted by index, after the entries with an equal
\* index (sorted() is stable)
RECURSIVE InsertByIndex(_, _)
InsertByIndex(sorted, pair) ==
    IF sorted = <<>> THEN <<pair>>
    ELSE IF pair.index < Head(sorted).index
         THEN <<pair>> \o sorted
         ELSE <<Head(sorted)>> \o InsertByIndex(Tail(sorted), pair)

\* insert pair into a list sorted by descending index
RECURSIVE InsertByIndexDescending(_, _)
InsertByIndexDescending(sorted, pair) ==
    IF sorted = <<>> THEN <<pair>>
    ELSE IF pair.index > Head(sorted).index
         THEN <<pair>> \o sorted
         ELSE <<Head(sorted)>> \o InsertByIndexDescending(Tail(sorted), pair)

\* sorted(..., reverse=True)
RECURSIVE SortTranscriptionsByIndexDescending(_)
SortTranscriptionsByIndexDescending(transcription_segments) ==
    IF transcription_segments = <<>> THEN <<>>
    ELSE InsertByIndexDescending(
            SortTranscriptionsByIndexDescending(
                SubSeq(transcription_segments, 1, Len(transcription_segments) - 1)),
            transcription_segments[Len(transcription_segments)])

\* sorted(transcription_segments, key=lambda x: x[0])
RECURSIVE SortTranscriptionsByIndex(_)
SortTranscriptionsByIndex(transcription_segments) ==
    IF transcription_segments = <<>> THEN <<>>
    ELSE InsertByIndex(
            SortTranscriptionsByIndex(
                SubSeq(transcription_segments, 1, Len(transcription_segments) - 1)),
            transcription_segments[Len(transcription_segments)])

ExtractTranscriptionResults(sorted_segments) ==
    [k \in 1..Len(sorted_segments) |-> sorted_segments[k].transcription]

\* the results are extracted without sorting first
AssembleFinalTranscriptionsUnsorted(transcription_segments) ==
    ExtractTranscriptionResults(transcription_segments)

AssembleFinalTranscriptions(transcription_segments) ==
    ExtractTranscriptionResults(SortTranscriptionsByIndex(transcription_segments))

(***************************************************************************)
(* pydub.effects.speedup, as called by AudioSense.apply_speed_modification *)
(***************************************************************************)
\* pydub's default chunk_size of speedup, in ms; also the slack allowed on the
\* length of its result (the last chunk is appended whole)
SpeedupChunkMs == 150

\* chunk_size + ms_to_remove_per_chunk of speedup for a factor above 1.0
SpeedupWindowMs(factor) ==
    IF factor < 20
    THEN SpeedupChunkMs + (SpeedupChunkMs * (factor - 10)) \div 10
    ELSE (SpeedupChunkMs * 10) \div (factor - 10) + SpeedupChunkMs

\* speedup raises: ZeroDivisionError for factor 0; "too short" when the audio
\* gives fewer than two chunks, which is every audio for a negative factor
SpeedupRaises(audio_len, factor) ==
    \/ factor <= 0
    \/ audio_len <= SpeedupWindowMs(factor)

\* the lengths speedup may return: the audio compressed by the factor, up to
\* the slack
SpeedupLengths(audio_len, factor) ==
    { (audio_len * 10) \div factor + d : d \in {0, SpeedupChunkMs} }

(***************************************************************************)
(* Inputs                                                                  *)
(***************************************************************************)
\* the uploaded stream holds the blocks 1..StreamLen
StreamLen == 2

Content == [k \in 1..StreamLen |-> k]

\* audio_file.file.read(): everything from the position to the end
ReadFrom(position) == SubSeq(Content, position + 1, StreamLen)

FilenameInputs ==
    { None,
      Some(<<"a",".","m","4","a">>),
      Some(<<"b",".","W","A","V">>),
      Some(<<"c",".","o","g","g">>),
      Some(<<"d",".","m","p","4">>),
      Some(<<"e",".","f","l","a","c">>),
      Some(<<"f",".","w","e","b","m">>) }

ContentTypeInputs ==
    { None, Some(<<"a","u","d","i","o","/","m","p","4">>) }

\* declared sizes in bytes, around the fast path's threshold
SizeInputs ==
    { None, Some(0), Some(1), Some(3932160), Some(3932161), Some(8000000) }

\* only an upload detected as m4a has its size looked at
UploadInputs ==
    { u \in [filename : FilenameInputs, content_type : ContentTypeInputs,
             size : SizeInputs] :
        \/ DetermineAudioFormat(u.filename, u.content_type) = M4A
        \/ u.size = None }

\* factors in tenths: 1.0, 1.5, 2.0, and the invalid 0 and -1.0
SpeedFactorInputs == { 10, 15, 20, 0, -10 }

ChunkSizeInputs == { None, Some(0), Some(1000000), Some(2000000), Some(-1000) }

\* durations, in ms, the decoder may report for the upload
DurationInputs == { 0, 500000, 1800000, 1900000, 3600001 }

(***************************************************************************)
(* State                                                                   *)
(***************************************************************************)
VARIABLES
    audio_file,             \* the UploadFile: filename, content_type, size
    position,               \* audio_file.file's stream position
    chunk_size_ms,          \* transcribe's argument, optional
    speed_up_factor,        \* transcribe's argument, in tenths
    phases,                 \* the phases entered so far, the last is current
    pc,                     \* the next step of the running branch
    detected_audio_format,  \* optional
    raw_audio,              \* optional: len(raw_audio)
    processed_audio,        \* optional: len(processed_audio)
    optimal_chunk_size,     \* optional
    audio_segments,         \* the list split_audio_into_segments returned
    tasks,                  \* the segment tasks asyncio.gather runs
    gather_exception,       \* optional: the exception gather's future holds
    calls,                  \* the remote calls issued, in order of issue
    finished,               \* the tasks that ended, in the order they ended
    temp_files,             \* the files on disk: [name, data]
    outcome,                \* what transcribe gave its caller
    ops,                    \* the operations performed, in order
    loaders,                \* load_audio_with_fallback calls of other invocations
    invocations,            \* the transcribe calls the HTTP route gathers
    running,                \* optional: the invocation the event loop is running
    async_openai_client,    \* optional: the module global _async_openai_client
    constructed,            \* the number of AsyncOpenAI instances constructed
    requests,               \* the HTTP requests that depend on the client
    active_connections,     \* the Socket.IO registry: session id -> environ
    socket_events,          \* the connect and disconnect events handled so far
    chat                    \* a request to the SSE chat stream: its generator

vars ==
    <<audio_file, position, chunk_size_ms, speed_up_factor, phases, pc,
      detected_audio_format, raw_audio, processed_audio, optimal_chunk_size,
      audio_segments, tasks, gather_exception, calls, finished, temp_files,
      outcome, ops, loaders, invocations, running,
      async_openai_client, constructed, requests,
      active_connections, socket_events, chat>>

\* the state of clients/__init__.py and of the requests it serves
client_vars == <<async_openai_client, constructed, requests>>

\* the state of the Socket.IO handlers
socket_vars == <<active_connections, socket_events>>

\* the state that belongs to no step of transcribe itself
elsewhere == <<loaders, invocations, running, client_vars, socket_vars, chat>>

\* the current phase
phase == phases[Len(phases)]

Pending == [kind |-> "pending", value |-> <<>>, error |-> None]

Returned(list) == [kind |-> "returned", value |-> list, error |-> None]

Raised(e) == [kind |-> "raised", value |-> <<>>, error |-> Some(e)]

\* no request to the chat stream
NoChat == [pc |-> "none", events |-> <<>>, received |-> 0, raised |-> FALSE]

Init ==
    /\ audio_file \in UploadInputs
    /\ position \in 0..StreamLen
    /\ chunk_size_ms \in ChunkSizeInputs
    /\ speed_up_factor \in SpeedFactorInputs
    /\ phases = <<"Called">>
    /\ pc = "reset"
    /\ detected_audio_format = None
    /\ raw_audio = None
    /\ processed_audio = None
    /\ optimal_chunk_size = None
    /\ audio_segments = <<>>
    /\ tasks = <<>>
    /\ gather_exception = None
    /\ calls = <<>>
    /\ finished = <<>>
    /\ temp_files = {}
    /\ outcome = Pending
    /\ ops = <<>>
    /\ loaders = <<>>
    /\ invocations = <<>>
    /\ running = None
    /\ async_openai_client = None
    /\ constructed = 0
    /\ requests = <<>>
    /\ active_connections = <<>>
    /\ socket_events = <<>>
    /\ chat = NoChat

(***************************************************************************)
(* Remote speech-to-text calls                                             *)
(***************************************************************************)
Error(type, call) == [type |-> type, call |-> call]

\* the bytes of a request: the upload's blocks as read, or an export
UploadBytes(blocks) ==
    [kind |-> "upload", blocks |-> blocks,
     codec |-> <<>>, bitrate |-> <<>>, from |-> 0, to |-> 0]

ExportBytes(exported) ==
    [kind |-> "export", blocks |-> <<>>,
     codec |-> exported.codec, bitrate |-> exported.bitrate,
     from |-> exported.from, to |-> exported.to]

AudioDot == <<"a","u","d","i","o",".">>

AudioSlash == <<"a","u","d","i","o","/">>

\* the tuple is named after the preferred codec, whatever codec was used
CreateOpenaiFileTupleNamedOgg(buffer, export_format) ==
    [filename |-> AudioDot \o OGG,
     data     |-> buffer,
     mime     |-> AudioSlash \o OGG]

\* _create_openai_file_tuple
CreateOpenaiFileTuple(buffer, export_format) ==
    [filename |-> AudioDot \o export_format,
     data     |-> buffer,
     mime     |-> AudioSlash \o export_format]

\* transcribe_m4a_directly.create_direct_file_tuple
CreateDirectFileTuple(filename, blocks) ==
    [filename |-> IF IsNone(filename) \/ Get(filename) = <<>>
                  THEN AudioDot \o M4A ELSE Get(filename),
     data     |-> UploadBytes(blocks),
     mime     |-> AudioSlash \o M4A]

\* intelligence_client.audio.transcriptions.create(file=file_tuple, ...) is
\* issued: the call is in flight
IssueCall(file_tuple, task) ==
    Append(calls, [file_tuple |-> file_tuple, status |-> "inflight", task |-> task])

\* the service's answer to call c
Transcription(c) == [call |-> c]

Log(entries) == ops \o entries

(***************************************************************************)
(* AudioSense.transcribe, up to the branch                                 *)
(***************************************************************************)
\* the phase is entered but the stream is not rewound
ResetFilePositionNoSeek ==
    /\ phase = "Called"
    /\ phases' = Append(phases, "Received")
    /\ pc' = "detect"
    /\ ops' = Log(<<"seek0">>)
    /\ UNCHANGED <<elsewhere, finished, audio_file, position, chunk_size_ms,
                   speed_up_factor, detected_audio_format, raw_audio,
                   processed_audio, optimal_chunk_size, audio_segments, tasks,
                   gather_exception, calls, temp_files, outcome>>

\* line 82: file_handler.reset_file_position
ResetFilePosition ==
    /\ phase = "Called"
    /\ position' = 0
    /\ phases' = Append(phases, "Received")
    /\ pc' = "detect"
    /\ ops' = Log(<<"seek0">>)
    /\ UNCHANGED <<elsewhere, finished, audio_file, chunk_size_ms, speed_up_factor,
                   detected_audio_format, raw_audio, processed_audio,
                   optimal_chunk_size, audio_segments, tasks,
                   gather_exception, calls, temp_files, outcome>>

\* lines 83-84: determine_audio_format, log_file_information
DetectFormat ==
    /\ phase = "Received"
    /\ detected_audio_format' =
          Some(DetermineAudioFormat(audio_file.filename, audio_file.content_type))
    /\ phases' = Append(phases, "FormatDetected")
    /\ pc' = "decide"
    /\ ops' = Log(<<"detect">>)
    /\ UNCHANGED <<elsewhere, finished, audio_file, position, chunk_size_ms,
                   speed_up_factor, raw_audio, processed_audio,
                   optimal_chunk_size, audio_segments, tasks,
                   gather_exception, calls, temp_files, outcome>>

\* an absent size counts as one above the fast path's limit
SizeOrTooLarge(size) == IF IsNone(size) THEN 3932161 ELSE Get(size)

\* audio_file.size or 0
SizeOrZero(size) == IF IsNone(size) THEN 0 ELSE Get(size)

\* lines 87-90: the branch
DecideFastPath ==
    /\ phase = "FormatDetected"
    /\ IF ShouldUseM4aFastPath(Get(detected_audio_format), speed_up_factor,
                               SizeOrZero(audio_file.size))
       THEN phases' = Append(phases, "FastPath") /\ pc' = "direct"
       ELSE phases' = Append(phases, "FullPipeline") /\ pc' = "load"
    /\ ops' = Log(<<"decide">>)
    /\ UNCHANGED <<elsewhere, finished, audio_file, position, chunk_size_ms,
                   speed_up_factor, detected_audio_format, raw_audio,
                   processed_audio, optimal_chunk_size, audio_segments,
                   tasks, gather_exception, calls, temp_files, outcome>>

(***************************************************************************)
(* The fast path: transcribe_m4a_directly                                  *)
(***************************************************************************)
\* lines 91, 47-58: read the stream, build the tuple, issue the call
TranscribeM4aDirectly ==
    /\ phase = "FastPath" /\ pc = "direct"
    /\ calls' = IssueCall(
                   CreateDirectFileTuple(audio_file.filename, ReadFrom(position)), 0)
    /\ position' = StreamLen
    /\ pc' = "await"
    /\ ops' = Log(<<"read", "submit">>)
    /\ UNCHANGED <<elsewhere, finished, audio_file, chunk_size_ms, speed_up_factor,
                   phases, detected_audio_format, raw_audio, processed_audio,
                   optimal_chunk_size, audio_segments, tasks,
                   gather_exception, temp_files, outcome>>

\* the call returns: lines 56-59 and 91 hand [transcription] to the caller
FastPathReturns ==
    /\ phase = "FastPath" /\ pc = "await"
    /\ calls' = [calls EXCEPT ![Len(calls)].status = "ok"]
    /\ outcome' = Returned(<<Transcription(Len(calls))>>)
    /\ phases' = Append(phases, "Completed")
    /\ pc' = "done"
    /\ UNCHANGED <<elsewhere, finished, audio_file, position, chunk_size_ms,
                   speed_up_factor, detected_audio_format, raw_audio,
                   processed_audio, optimal_chunk_size, audio_segments,
                   tasks, gather_exception, temp_files, ops>>

\* the call raises and the invocation goes on with the full pipeline
FastPathRaisesFallsBack ==
    /\ phase = "FastPath" /\ pc = "await"
    /\ calls' = [calls EXCEPT ![Len(calls)].status = "error"]
    /\ phases' = Append(phases, "FullPipeline")
    /\ pc' = "load"
    /\ UNCHANGED <<elsewhere, finished, audio_file, position, chunk_size_ms,
                   speed_up_factor, detected_audio_format, raw_audio,
                   processed_audio, optimal_chunk_size, audio_segments, tasks,
                   gather_exception, temp_files, outcome, ops>>

\* the call raises: nothing catches it
FastPathRaises ==
    /\ phase = "FastPath" /\ pc = "await"
    /\ calls' = [calls EXCEPT ![Len(calls)].status = "error"]
    /\ outcome' = Raised(Error("RemoteServiceError", Len(calls)))
    /\ phases' = Append(phases, "Failed")
    /\ pc' = "done"
    /\ UNCHANGED <<elsewhere, finished, audio_file, position, chunk_size_ms,
                   speed_up_factor, detected_audio_format, raw_audio,
                   processed_audio, optimal_chunk_size, audio_segments,
                   tasks, gather_exception, temp_files, ops>>

(***************************************************************************)
(* The full pipeline: decode, speed, chunk size, split                     *)
(***************************************************************************)
\* transcribe raises e: nothing in transcribe catches it
Fail(e) ==
    /\ outcome' = Raised(e)
    /\ phases' = Append(phases, "Failed")
    /\ pc' = "done"

TempDot == <<"t","e","m","p",".">>

\* _create_temporary_audio_file's name
TempFilename(file_format) == TempDot \o file_format

\* open(name, "wb") and write: the file is created or truncated
WriteFile(files, name, data) ==
    { f \in files : f.name # name } \cup { [name |-> name, data |-> data] }

\* os.unlink
Unlink(files, name) == { f \in files : f.name # name }

\* a loader without the except branch: a direct decode that raises is final
LoadAudioWithoutFallback ==
    /\ phase = "FullPipeline" /\ pc = "load"
    /\ position' = StreamLen
    /\ \/ /\ \E d \in DurationInputs : raw_audio' = Some(d)
          /\ ops' = Log(<<"decode">>)
          /\ pc' = "speed"
          /\ UNCHANGED <<phases, outcome>>
       \/ /\ ops' = Log(<<"decode", "decode_raised">>)
          /\ Fail(Error("DecodeError", 0))
          /\ UNCHANGED raw_audio
    /\ UNCHANGED <<elsewhere, finished, audio_file, chunk_size_ms, speed_up_factor,
                   detected_audio_format, processed_audio,
                   optimal_chunk_size, audio_segments, tasks,
                   gather_exception, calls, temp_files>>

\* lines 94-96 and AudioLoader.load_audio_with_fallback.  The decoder is the
\* environment: it decodes to some duration or raises, and a direct decode
\* that raises leaves the stream wherever it stopped reading.
LoadAudioWithFallback ==
    /\ phase = "FullPipeline" /\ pc = "load"
    /\ \/ \* _load_audio_from_file_object succeeds
          /\ \E d \in DurationInputs : raw_audio' = Some(d)
          /\ position' = StreamLen
          /\ ops' = Log(<<"decode">>)
          /\ pc' = "speed"
          /\ UNCHANGED <<temp_files, phases, outcome>>
       \/ \* it raises: the temporary-file path
          \E stopped \in position..StreamLen :
            LET name    == TempFilename(Get(detected_audio_format))
                data    == ReadFrom(stopped)
                written == WriteFile(temp_files, name, data)
            IN  /\ position' = StreamLen
                /\ \/ \* _load_audio_from_temporary_file succeeds, then unlink
                      /\ data # <<>>
                      /\ \E d \in DurationInputs : raw_audio' = Some(d)
                      /\ temp_files' = Unlink(written, name)
                      /\ ops' = Log(<<"decode", "decode_raised", "temp_write",
                                      "temp_decode", "unlink">>)
                      /\ pc' = "speed"
                      /\ UNCHANGED <<phases, outcome>>
                   \/ \* it raises too: the unlink is not reached
                      /\ temp_files' = written
                      /\ ops' = Log(<<"decode", "decode_raised", "temp_write",
                                      "temp_decode", "temp_decode_raised">>)
                      /\ Fail(Error("DecodeError", 0))
                      /\ UNCHANGED raw_audio
    /\ UNCHANGED <<elsewhere, finished, audio_file, chunk_size_ms, speed_up_factor,
                   detected_audio_format, processed_audio,
                   optimal_chunk_size, audio_segments, tasks,
                   gather_exception, calls>>

\* apply_speed_modification without its test of the factor
ApplySpeedModificationAlways ==
    /\ phase = "FullPipeline" /\ pc = "speed"
    /\ ops' = Log(<<"speedup">>)
    /\ IF SpeedupRaises(Get(raw_audio), speed_up_factor)
       THEN /\ Fail(Error("SpeedupError", 0))
            /\ UNCHANGED processed_audio
       ELSE /\ \E n \in SpeedupLengths(Get(raw_audio), speed_up_factor) :
                   processed_audio' = Some(n)
            /\ pc' = "chunk"
            /\ UNCHANGED <<phases, outcome>>
    /\ UNCHANGED <<elsewhere, finished, audio_file, position, chunk_size_ms,
                   speed_up_factor, detected_audio_format, raw_audio,
                   optimal_chunk_size, audio_segments, tasks,
                   gather_exception, calls, temp_files>>

\* line 97 and apply_speed_modification
ApplySpeedModification ==
    /\ phase = "FullPipeline" /\ pc = "speed"
    /\ IF speed_up_factor # 10
       THEN IF SpeedupRaises(Get(raw_audio), speed_up_factor)
            THEN /\ Fail(Error("SpeedupError", 0))
                 /\ ops' = Log(<<"speedup">>)
                 /\ UNCHANGED processed_audio
            ELSE /\ \E n \in SpeedupLengths(Get(raw_audio), speed_up_factor) :
                        processed_audio' = Some(n)
                 /\ ops' = Log(<<"speedup">>)
                 /\ pc' = "chunk"
                 /\ UNCHANGED <<phases, outcome>>
       ELSE /\ processed_audio' = raw_audio
            /\ pc' = "chunk"
            /\ UNCHANGED <<phases, outcome, ops>>
    /\ UNCHANGED <<elsewhere, finished, audio_file, position, chunk_size_ms,
                   speed_up_factor, detected_audio_format, raw_audio,
                   optimal_chunk_size, audio_segments, tasks,
                   gather_exception, calls, temp_files>>

\* chunk_size_ms or calculate_optimal_chunk_duration(len(raw_audio)): None and
\* 0 are falsy
ChunkSizeOr(supplied, raw_len) ==
    IF IsNone(supplied) \/ Get(supplied) = 0
    THEN CalculateOptimalChunkDuration(raw_len)
    ELSE Get(supplied)

\* the chunk size is computed from the speed-modified audio
ComputeChunkSizeFromProcessed ==
    /\ phase = "FullPipeline" /\ pc = "chunk"
    /\ optimal_chunk_size' = Some(ChunkSizeOr(chunk_size_ms, Get(processed_audio)))
    /\ pc' = "split"
    /\ UNCHANGED <<elsewhere, finished, audio_file, position, chunk_size_ms,
                   speed_up_factor, phases, detected_audio_format, raw_audio,
                   processed_audio, audio_segments, tasks, gather_exception,
                   calls, temp_files, outcome, ops>>

\* lines 99-102
ComputeChunkSize ==
    /\ phase = "FullPipeline" /\ pc = "chunk"
    /\ optimal_chunk_size' = Some(ChunkSizeOr(chunk_size_ms, Get(raw_audio)))
    /\ pc' = "split"
    /\ UNCHANGED <<elsewhere, finished, audio_file, position, chunk_size_ms,
                   speed_up_factor, phases, detected_audio_format, raw_audio,
                   processed_audio, audio_segments, tasks, gather_exception,
                   calls, temp_files, outcome, ops>>

\* a step of 0 gives no segment instead of an error
SplitAudioEmptyOnZeroStep ==
    /\ phase = "FullPipeline" /\ pc = "split"
    /\ ops' = Log(<<"split">>)
    /\ audio_segments' =
          IF Get(optimal_chunk_size) = 0 THEN <<>>
          ELSE SplitAudioIntoSegments(Get(processed_audio), Get(optimal_chunk_size))
    /\ pc' = "gather"
    /\ UNCHANGED <<elsewhere, finished, audio_file, position, chunk_size_ms,
                   speed_up_factor, detected_audio_format, raw_audio,
                   processed_audio, optimal_chunk_size, tasks,
                   gather_exception, calls, temp_files, phases, outcome>>

\* lines 103-108: range() raises ValueError on a step of 0
SplitAudio ==
    /\ phase = "FullPipeline" /\ pc = "split"
    /\ ops' = Log(<<"split">>)
    /\ IF Get(optimal_chunk_size) = 0
       THEN /\ Fail(Error("ValueError", 0))
            /\ UNCHANGED audio_segments
       ELSE /\ audio_segments' =
                  SplitAudioIntoSegments(Get(processed_audio), Get(optimal_chunk_size))
            /\ pc' = "gather"
            /\ UNCHANGED <<phases, outcome>>
    /\ UNCHANGED <<elsewhere, finished, audio_file, position, chunk_size_ms,
                   speed_up_factor, detected_audio_format, raw_audio,
                   processed_audio, optimal_chunk_size, tasks,
                   gather_exception, calls, temp_files>>

(***************************************************************************)
(* The full pipeline: the concurrent segment tasks                         *)
(***************************************************************************)
\* enumerate(segments): one coroutine per segment, wrapped in a task by
\* asyncio.gather, 0-based index captured at creation
SegmentTasks(segments) ==
    [k \in 1..Len(segments) |->
        [index |-> k - 1, segment |-> segments[k], state |-> "pending",
         call |-> 0, result |-> None]]

\* lines 110-112 and process_audio_segments_concurrently: the tasks are
\* created and transcribe awaits the gather
ProcessAudioSegmentsConcurrently ==
    /\ phase = "FullPipeline" /\ pc = "gather"
    /\ tasks' = SegmentTasks(audio_segments)
    /\ pc' = "await"
    /\ UNCHANGED <<elsewhere, finished, audio_file, position, chunk_size_ms,
                   speed_up_factor, phases, detected_audio_format, raw_audio,
                   processed_audio, optimal_chunk_size, audio_segments,
                   gather_exception, calls, temp_files, outcome, ops>>

\* the event loop runs ready tasks in the order they were created
NextToRun(k) ==
    /\ k \in 1..Len(tasks)
    /\ tasks[k].state = "pending"
    /\ \A j \in 1..(k - 1) : tasks[j].state # "pending"

\* gather's future takes the exception of whichever task raised last
LastException(e) == Some(e)

\* gather's future takes the first exception of a task, and no later one
FirstException(e) ==
    IF IsNone(gather_exception) THEN Some(e) ELSE gather_exception

\* process_segment_with_index's return value
IndexedTranscription(index, transcription) ==
    [index |-> index, transcription |-> transcription]

\* the call is issued but not awaited: the task ends at once
ProcessSegmentWithIndexNoAwait(k) ==
    /\ NextToRun(k)
    /\ LET exported == ExportAudioToOptimalFormat(tasks[k].segment,
                                                  Get(detected_audio_format))
           file_tuple == CreateOpenaiFileTuple(ExportBytes(exported), exported.codec)
       IN  /\ calls' = IssueCall(file_tuple, k)
           /\ tasks' = [tasks EXCEPT
                           ![k].state = "done",
                           ![k].call = Len(calls) + 1,
                           ![k].result = Some(IndexedTranscription(
                                                 tasks[k].index,
                                                 Transcription(Len(calls) + 1)))]
    /\ finished' = Append(finished, k)
    /\ ops' = Log(<<"export", "submit">>)
    /\ UNCHANGED <<elsewhere, audio_file, position, chunk_size_ms, speed_up_factor,
                   phases, pc, detected_audio_format, raw_audio,
                   processed_audio, optimal_chunk_size, audio_segments,
                   gather_exception, temp_files, outcome>>

\* the task is suspended between its export and its call: the export is one
\* step, the call a later one
ProcessSegmentWithIndexYieldsAfterExport(k) ==
    /\ k \in 1..Len(tasks)
    /\ \/ /\ NextToRun(k)
          /\ tasks' = [tasks EXCEPT ![k].state = "exported"]
          /\ ops' = Log(<<"export">>)
          /\ UNCHANGED calls
       \/ /\ tasks[k].state = "exported"
          /\ LET exported == ExportAudioToOptimalFormat(tasks[k].segment,
                                                        Get(detected_audio_format))
                 file_tuple == CreateOpenaiFileTuple(ExportBytes(exported),
                                                     exported.codec)
             IN  /\ calls' = IssueCall(file_tuple, k)
                 /\ tasks' = [tasks EXCEPT ![k].state = "awaiting",
                                           ![k].call = Len(calls) + 1]
          /\ ops' = Log(<<"submit">>)
    /\ UNCHANGED <<elsewhere, finished, audio_file, position, chunk_size_ms,
                   speed_up_factor, phases, pc, detected_audio_format,
                   raw_audio, processed_audio, optimal_chunk_size,
                   audio_segments, gather_exception, temp_files, outcome>>

\* process_segment_with_index, lines 26-34: export, build the tuple, issue the
\* call; the task then waits for the answer
ProcessSegmentWithIndex(k) ==
    /\ NextToRun(k)
    /\ LET exported == ExportAudioToOptimalFormat(tasks[k].segment,
                                                  Get(detected_audio_format))
           file_tuple == CreateOpenaiFileTuple(ExportBytes(exported), exported.codec)
       IN  /\ calls' = IssueCall(file_tuple, k)
           /\ tasks' = [tasks EXCEPT ![k].state = "awaiting",
                                     ![k].call = Len(calls) + 1]
    /\ ops' = Log(<<"export", "submit">>)
    /\ UNCHANGED <<elsewhere, finished, audio_file, position, chunk_size_ms,
                   speed_up_factor, phases, pc, detected_audio_format,
                   raw_audio, processed_audio, optimal_chunk_size,
                   audio_segments, gather_exception, temp_files, outcome>>

\* segment.export raises (the encoder is the environment): the task ends with
\* that exception before any call
ProcessSegmentExportRaises(k) ==
    /\ NextToRun(k)
    /\ finished' = Append(finished, k)
    /\ tasks' = [tasks EXCEPT ![k].state = "raised"]
    /\ gather_exception' = FirstException(Error("ExportError", 0))
    /\ ops' = Log(<<"export">>)
    /\ UNCHANGED <<elsewhere, audio_file, position, chunk_size_ms, speed_up_factor,
                   phases, pc, detected_audio_format, raw_audio,
                   processed_audio, optimal_chunk_size, audio_segments,
                   calls, temp_files, outcome>>

\* the call of task k returns: lines 35-37, the task ends with
\* (index, transcription)
SegmentCallReturns(k) ==
    /\ k \in 1..Len(tasks)
    /\ tasks[k].state = "awaiting"
    /\ calls' = [calls EXCEPT ![tasks[k].call].status = "ok"]
    /\ finished' = Append(finished, k)
    /\ tasks' = [tasks EXCEPT
                    ![k].state = "done",
                    ![k].result = Some(IndexedTranscription(
                                          tasks[k].index,
                                          Transcription(tasks[k].call)))]
    /\ UNCHANGED <<elsewhere, audio_file, position, chunk_size_ms, speed_up_factor,
                   phases, pc, detected_audio_format, raw_audio,
                   processed_audio, optimal_chunk_size, audio_segments,
                   gather_exception, temp_files, outcome, ops>>

\* the call of task k raises and the task issues it again
SegmentCallRaisesRetries(k) ==
    /\ k \in 1..Len(tasks)
    /\ tasks[k].state = "awaiting"
    /\ calls' = Append([calls EXCEPT ![tasks[k].call].status = "error"],
                       [calls[tasks[k].call] EXCEPT !.status = "inflight"])
    /\ tasks' = [tasks EXCEPT ![k].call = Len(calls) + 1]
    /\ ops' = Log(<<"submit">>)
    /\ UNCHANGED <<elsewhere, audio_file, position, chunk_size_ms, speed_up_factor,
                   phases, pc, detected_audio_format, raw_audio,
                   processed_audio, optimal_chunk_size, audio_segments,
                   finished, gather_exception, temp_files, outcome>>

\* the call of task k raises: the task ends with that exception
SegmentCallRaises(k) ==
    /\ k \in 1..Len(tasks)
    /\ tasks[k].state = "awaiting"
    /\ calls' = [calls EXCEPT ![tasks[k].call].status = "error"]
    /\ finished' = Append(finished, k)
    /\ tasks' = [tasks EXCEPT ![k].state = "raised"]
    /\ gather_exception' =
          FirstException(Error("RemoteServiceError", tasks[k].call))
    /\ UNCHANGED <<elsewhere, audio_file, position, chunk_size_ms, speed_up_factor,
                   phases, pc, detected_audio_format, raw_audio,
                   processed_audio, optimal_chunk_size, audio_segments,
                   temp_files, outcome, ops>>

\* asyncio.gather's result: the tasks' results in the order of its arguments
GatherResults(ts) == [k \in 1..Len(ts) |-> Get(ts[k].result)]

\* gather's future is done only when every task has returned
GatherDoneWhenAllReturned(ts, exception) ==
    \A k \in 1..Len(ts) : ts[k].state = "done"

\* gather's future is done: with the first exception, or with every task done
GatherDone(ts, exception) ==
    \/ ~IsNone(exception)
    \/ \A k \in 1..Len(ts) : ts[k].state = "done"

\* the exceptions are dropped and the results of the tasks that ended well are
\* kept
AwaitGatherSwallowing(ts, exception) ==
    LET ended == SelectSeq(ts, LAMBDA t : t.state = "done")
    IN  Returned([k \in 1..Len(ended) |-> Get(ended[k].result)])

\* what `await asyncio.gather(...)` gives transcribe: the first exception is
\* raised, otherwise the list of results
AwaitGather(ts, exception) ==
    IF ~IsNone(exception)
    THEN Raised(Get(exception))
    ELSE Returned(GatherResults(ts))

\* lines 110-115: transcribe resumes from the await, and assembles.  The
\* loop runs its ready queue in order: the first steps of the tasks were
\* queued when the tasks were created, before any callback that completes the
\* gather and wakes transcribe.
TranscribeResumes ==
    /\ phase = "FullPipeline" /\ pc = "await"
    /\ GatherDone(tasks, gather_exception)
    /\ \A k \in 1..Len(tasks) : tasks[k].state # "pending"
    /\ LET transcription_segments == AwaitGather(tasks, gather_exception)
       IN  IF transcription_segments.kind = "raised"
           THEN Fail(Get(transcription_segments.error))
           ELSE /\ outcome' = Returned(AssembleFinalTranscriptions(
                                          transcription_segments.value))
                /\ phases' = Append(phases, "Completed")
                /\ pc' = "done"
    /\ UNCHANGED <<elsewhere, finished, audio_file, position, chunk_size_ms,
                   speed_up_factor, detected_audio_format, raw_audio,
                   processed_audio, optimal_chunk_size, audio_segments,
                   tasks, gather_exception, calls, temp_files, ops>>

(***************************************************************************)
(* Specification                                                           *)
(***************************************************************************)
Next ==
    \/ ResetFilePosition
    \/ DetectFormat
    \/ DecideFastPath
    \/ TranscribeM4aDirectly
    \/ FastPathReturns
    \/ FastPathRaises
    \/ LoadAudioWithFallback
    \/ ApplySpeedModification
    \/ ComputeChunkSize
    \/ SplitAudio
    \/ ProcessAudioSegmentsConcurrently
    \/ \E k \in 1..Len(tasks) : ProcessSegmentWithIndex(k)
    \/ \E k \in 1..Len(tasks) : ProcessSegmentExportRaises(k)
    \/ \E k \in 1..Len(tasks) : SegmentCallReturns(k)
    \/ \E k \in 1..Len(tasks) : SegmentCallRaises(k)
    \/ TranscribeResumes

Spec == Init /\ [][Next]_vars

\* the invocation goes on while a step of it can be taken: the synchronous
\* steps terminate, every remote call returns or raises, and the event loop
\* runs a ready task
Fairness == WF_vars(Next)

\* the invocations followed to their end: a stream at its start, no chunk
\* size or one above the ceiling, factor 1.0 or 2.0
InitFair ==
    /\ Init
    /\ position = 0
    /\ chunk_size_ms \in {None, Some(2000000)}
    /\ speed_up_factor \in {10, 20}

FairSpec == InitFair /\ [][Next]_vars /\ Fairness

(***************************************************************************)
(* The exporter called on its own: process_segment_with_index takes any    *)
(* format string and any segment                                           *)
(***************************************************************************)
FormatStringInputs ==
    { MP3, MP4, M4A, WAV, FLAC, OGG, WEBM,
      <<"a","a","c">>, <<"M","P","3">>, <<".","o","g","g">>, <<>> }

SegmentInputs ==
    { [from |-> a, to |-> a + n] :
        a \in {0, 1800000}, n \in {0, 1, 60000, 1800000, 2000000} }

InitExporter ==
    /\ audio_file = [filename |-> None, content_type |-> None, size |-> None]
    /\ position = 0
    /\ chunk_size_ms = None
    /\ speed_up_factor = 10
    /\ phases = <<"Called">>
    /\ pc = "reset"
    /\ detected_audio_format \in { Some(f) : f \in FormatStringInputs }
    /\ raw_audio = None
    /\ processed_audio = None
    /\ optimal_chunk_size = None
    /\ audio_segments = <<>>
    /\ tasks \in { SegmentTasks(<<segment>>) : segment \in SegmentInputs }
    /\ gather_exception = None
    /\ calls = <<>>
    /\ finished = <<>>
    /\ temp_files = {}
    /\ outcome = Pending
    /\ ops = <<>>
    /\ loaders = <<>>
    /\ invocations = <<>>
    /\ running = None
    /\ async_openai_client = None
    /\ constructed = 0
    /\ requests = <<>>
    /\ active_connections = <<>>
    /\ socket_events = <<>>
    /\ chat = NoChat

NextExporter ==
    \/ \E k \in 1..Len(tasks) : ProcessSegmentWithIndex(k)
    \/ \E k \in 1..Len(tasks) : SegmentCallReturns(k)

SpecExporter == InitExporter /\ [][NextExporter]_vars

(***************************************************************************)
(* The format detector on its own: any filename with any content type      *)
(***************************************************************************)
\* absent, empty, each supported extension, upper case, no extension, an
\* unsupported one, a dot first or last, a dot in a directory, two suffixes,
\* a trailing slash
DetectorFilenameInputs ==
    { None,
      Some(<<>>),
      Some(<<"x",".","w","a","v">>),
      Some(<<"b",".","W","A","V">>),
      Some(<<"a",".","m","p","3">>),
      Some(<<"a",".","m","p","4">>),
      Some(<<"a",".","m","4","a">>),
      Some(<<"a",".","f","l","a","c">>),
      Some(<<"a",".","o","g","g">>),
      Some(<<"a",".","w","e","b","m">>),
      Some(<<"n","o","e","x","t">>),
      Some(<<"a",".","t","x","t">>),
      Some(<<".","m","p","3">>),
      Some(<<"a",".","m","p","3",".">>),
      Some(<<"d",".","w","a","v","/","f">>),
      Some(<<"a",".","t","a","r",".","o","g","g">>),
      Some(<<"a",".","w","a","v","/">>),
      Some(<<"a",".","w","a","v","e">>),
      Some(<<"m","p","3">>) }

DetectorContentTypeInputs ==
    { None,
      Some(<<>>),
      Some(<<"a","u","d","i","o","/","m","p","3">>),
      Some(<<"a","u","d","i","o","/","m","p","4">>),
      Some(<<"a","u","d","i","o","/","x","-","m","4","a">>),
      Some(<<"a","u","d","i","o","/","w","a","v">>),
      Some(<<"A","U","D","I","O","/","W","A","V">>),
      Some(<<"a","u","d","i","o","/","m","p","e","g">>),
      Some(<<"a","u","d","i","o","/","o","g","g">>),
      Some(<<"a","u","d","i","o","/","m","p","4",";","w","a","v">>),
      Some(<<"a","u","d","i","o","/","w","a","v","-","m","p","3">>) }

InitDetector ==
    /\ audio_file \in [filename : DetectorFilenameInputs,
                       content_type : DetectorContentTypeInputs,
                       size : {None}]
    /\ position \in 0..StreamLen
    /\ chunk_size_ms = None
    /\ speed_up_factor = 10
    /\ phases = <<"Called">>
    /\ pc = "reset"
    /\ detected_audio_format = None
    /\ raw_audio = None
    /\ processed_audio = None
    /\ optimal_chunk_size = None
    /\ audio_segments = <<>>
    /\ tasks = <<>>
    /\ gather_exception = None
    /\ calls = <<>>
    /\ finished = <<>>
    /\ temp_files = {}
    /\ outcome = Pending
    /\ ops = <<>>
    /\ loaders = <<>>
    /\ invocations = <<>>
    /\ running = None
    /\ async_openai_client = None
    /\ constructed = 0
    /\ requests = <<>>
    /\ active_connections = <<>>
    /\ socket_events = <<>>
    /\ chat = NoChat

NextDetector ==
    \/ ResetFilePosition
    \/ DetectFormat

SpecDetector == InitDetector /\ [][NextDetector]_vars

(***************************************************************************)
(* The loader called by several invocations whose steps interleave: server *)
(* processes started in one working directory share the relative path that *)
(* _create_temporary_audio_file opens.  Upload i holds the one block <<i>>. *)
(***************************************************************************)
LoaderCount == 2

LoaderFormatInputs == {MP3, WAV}

Loader(file_format) ==
    [file_format |-> file_format, pc |-> "direct", temp_filename |-> None,
     audio |-> None]

InitLoader ==
    /\ loaders \in [1..LoaderCount -> { Loader(f) : f \in LoaderFormatInputs }]
    /\ invocations = <<>>
    /\ running = None
    /\ async_openai_client = None
    /\ constructed = 0
    /\ requests = <<>>
    /\ active_connections = <<>>
    /\ socket_events = <<>>
    /\ chat = NoChat
    /\ audio_file = [filename |-> None, content_type |-> None, size |-> None]
    /\ position = 0
    /\ chunk_size_ms = None
    /\ speed_up_factor = 10
    /\ phases = <<"Called">>
    /\ pc = "reset"
    /\ detected_audio_format = None
    /\ raw_audio = None
    /\ processed_audio = None
    /\ optimal_chunk_size = None
    /\ audio_segments = <<>>
    /\ tasks = <<>>
    /\ gather_exception = None
    /\ calls = <<>>
    /\ finished = <<>>
    /\ temp_files = {}
    /\ outcome = Pending
    /\ ops = <<>>

\* the variables of the one invocation Spec follows, temp_files apart
transcribe_vars ==
    <<audio_file, position, chunk_size_ms, speed_up_factor, phases, pc,
      detected_audio_format, raw_audio, processed_audio, optimal_chunk_size,
      audio_segments, tasks, gather_exception, calls, finished, outcome, ops,
      invocations, running, client_vars, socket_vars, chat>>

FileNamed(name) == { f \in temp_files : f.name = name }

\* lines 18-20: the direct decode returns the audio of the upload, or raises
\* and the except branch is entered
LoadAudioFromFileObject(i) ==
    /\ loaders[i].pc = "direct"
    /\ \/ loaders' = [loaders EXCEPT ![i].audio = Some(<<i>>), ![i].pc = "returned"]
       \/ loaders' = [loaders EXCEPT ![i].pc = "create"]
    /\ UNCHANGED <<temp_files, transcribe_vars>>

\* line 21 and _create_temporary_audio_file: open(f"temp.{file_format}", "wb")
\* creates or truncates the file, then the upload is written to it
CreateTemporaryAudioFile(i) ==
    /\ loaders[i].pc = "create"
    /\ LET temp_filename == TempFilename(loaders[i].file_format)
       IN  /\ temp_files' = WriteFile(temp_files, temp_filename, <<i>>)
           /\ loaders' = [loaders EXCEPT ![i].temp_filename = Some(temp_filename),
                                         ![i].pc = "decode"]
    /\ UNCHANGED transcribe_vars

\* line 22 and _load_audio_from_temporary_file: the decoder reads whatever the
\* path holds now, or raises; a path that is gone raises
LoadAudioFromTemporaryFile(i) ==
    /\ loaders[i].pc = "decode"
    /\ \/ \E f \in FileNamed(Get(loaders[i].temp_filename)) :
            loaders' = [loaders EXCEPT ![i].audio = Some(f.data),
                                       ![i].pc = "cleanup"]
       \/ loaders' = [loaders EXCEPT ![i].pc = "raised"]
    /\ UNCHANGED <<temp_files, transcribe_vars>>

\* lines 23-24 and _cleanup_temporary_file: os.unlink raises when the path is
\* gone
CleanupTemporaryFile(i) ==
    /\ loaders[i].pc = "cleanup"
    /\ LET temp_filename == Get(loaders[i].temp_filename)
       IN  IF FileNamed(temp_filename) # {}
           THEN /\ temp_files' = Unlink(temp_files, temp_filename)
                /\ loaders' = [loaders EXCEPT ![i].pc = "returned"]
           ELSE /\ loaders' = [loaders EXCEPT ![i].pc = "raised"]
                /\ UNCHANGED temp_files
    /\ UNCHANGED transcribe_vars

NextLoader ==
    \/ \E i \in 1..LoaderCount : LoadAudioFromFileObject(i)
    \/ \E i \in 1..LoaderCount : CreateTemporaryAudioFile(i)
    \/ \E i \in 1..LoaderCount : LoadAudioFromTemporaryFile(i)
    \/ \E i \in 1..LoaderCount : CleanupTemporaryFile(i)

SpecLoader == InitLoader /\ [][NextLoader]_vars

(***************************************************************************)
(* The assembler called on its own: assemble_final_transcriptions takes a  *)
(* list of (index, transcription) pairs in any order                       *)
(***************************************************************************)
AssemblerMaxLen == 3

AssemblerMaxIndex == 3

\* the lists of distinct indices, of every length and in every order
IndexListInputs ==
    UNION { { s \in [1..n -> 0..AssemblerMaxIndex] :
                \A i, j \in 1..n : i # j => s[i] # s[j] } :
            n \in 0..AssemblerMaxLen }

\* a task that ended with (index, the transcription of call c)
EndedTask(index, c) ==
    [index |-> index, segment |-> [from |-> 0, to |-> 0], state |-> "done",
     call |-> c, result |-> Some(IndexedTranscription(index, Transcription(c)))]

InitAssembler ==
    /\ tasks \in { [k \in 1..Len(s) |-> EndedTask(s[k], c[k])] :
                     s \in IndexListInputs, c \in [1..AssemblerMaxLen -> {1, 2}] }
    /\ audio_file = [filename |-> None, content_type |-> None, size |-> None]
    /\ position = 0
    /\ chunk_size_ms = None
    /\ speed_up_factor = 10
    /\ phases = <<"Called", "Received", "FormatDetected", "FullPipeline">>
    /\ pc = "await"
    /\ detected_audio_format = None
    /\ raw_audio = None
    /\ processed_audio = None
    /\ optimal_chunk_size = None
    /\ audio_segments = <<>>
    /\ gather_exception = None
    /\ calls = <<>>
    /\ finished = <<>>
    /\ temp_files = {}
    /\ outcome = Pending
    /\ ops = <<>>
    /\ loaders = <<>>
    /\ invocations = <<>>
    /\ running = None
    /\ async_openai_client = None
    /\ constructed = 0
    /\ requests = <<>>
    /\ active_connections = <<>>
    /\ socket_events = <<>>
    /\ chat = NoChat

NextAssembler == TranscribeResumes

SpecAssembler == InitAssembler /\ [][NextAssembler]_vars

(***************************************************************************)
(* The HTTP route: five invocations of transcribe, one per speed factor,   *)
(* gathered on one UploadFile.  The event loop runs one invocation at a    *)
(* time, from where it was resumed to its next await or its end.           *)
(***************************************************************************)
\* speed_up_factors = [1.0, 1.5, 2.0, 2.5, 3.0]
RouteSpeedFactors == <<10, 15, 20, 25, 30>>

RouteUploadInputs ==
    { [filename |-> Some(<<"a",".","m","4","a">>), content_type |-> None,
       size |-> Some(1)],
      [filename |-> Some(<<"a",".","m","4","a">>), content_type |-> None,
       size |-> Some(8000000)],
      [filename |-> Some(<<"b",".","W","A","V">>), content_type |-> None,
       size |-> None] }

Invocation(factor) ==
    [speed_up_factor |-> factor, pc |-> "reset", detected_audio_format |-> None,
     first_read |-> None]

InitRoute ==
    /\ audio_file \in RouteUploadInputs
    /\ position \in 0..StreamLen
    /\ invocations = [i \in 1..Len(RouteSpeedFactors) |->
                          Invocation(RouteSpeedFactors[i])]
    /\ running = None
    /\ async_openai_client = None
    /\ constructed = 0
    /\ requests = <<>>
    /\ active_connections = <<>>
    /\ socket_events = <<>>
    /\ chat = NoChat
    /\ chunk_size_ms = None
    /\ speed_up_factor = 10
    /\ phases = <<"Called">>
    /\ pc = "reset"
    /\ detected_audio_format = None
    /\ raw_audio = None
    /\ processed_audio = None
    /\ optimal_chunk_size = None
    /\ audio_segments = <<>>
    /\ tasks = <<>>
    /\ gather_exception = None
    /\ calls = <<>>
    /\ finished = <<>>
    /\ temp_files = {}
    /\ outcome = Pending
    /\ ops = <<>>
    /\ loaders = <<>>

\* the variables of the one invocation Spec follows, the stream apart
route_frame ==
    <<audio_file, chunk_size_ms, speed_up_factor, phases, pc,
      detected_audio_format, raw_audio, processed_audio, optimal_chunk_size,
      audio_segments, tasks, gather_exception, calls, finished, temp_files,
      outcome, ops, loaders, client_vars, socket_vars, chat>>

\* the loop is free, or is running invocation i
CanRun(i) == IsNone(running) \/ running = Some(i)

\* line 82 with a suspension point after it: the loop is given up
InvocationResetsAndYields(i) ==
    /\ invocations[i].pc = "reset"
    /\ CanRun(i)
    /\ position' = 0
    /\ invocations' = [invocations EXCEPT ![i].pc = "detect"]
    /\ running' = None
    /\ UNCHANGED route_frame

\* the task of invocation i is started by the loop; line 82:
\* reset_file_position
InvocationResets(i) ==
    /\ invocations[i].pc = "reset"
    /\ CanRun(i)
    /\ position' = 0
    /\ invocations' = [invocations EXCEPT ![i].pc = "detect"]
    /\ running' = Some(i)
    /\ UNCHANGED route_frame

\* lines 83-84
InvocationDetects(i) ==
    /\ invocations[i].pc = "detect"
    /\ CanRun(i)
    /\ invocations' = [invocations EXCEPT
          ![i].detected_audio_format =
              Some(DetermineAudioFormat(audio_file.filename, audio_file.content_type)),
          ![i].pc = "decide"]
    /\ running' = Some(i)
    /\ UNCHANGED <<position, route_frame>>

\* lines 87-89
InvocationDecides(i) ==
    /\ invocations[i].pc = "decide"
    /\ CanRun(i)
    /\ invocations' = [invocations EXCEPT ![i].pc =
          IF ShouldUseM4aFastPath(Get(invocations[i].detected_audio_format),
                                  invocations[i].speed_up_factor,
                                  SizeOrZero(audio_file.size))
          THEN "direct" ELSE "load"]
    /\ running' = Some(i)
    /\ UNCHANGED <<position, route_frame>>

\* lines 91, 47-58: audio_file.file.read(), then the await of the remote call
InvocationReadsDirectly(i) ==
    /\ invocations[i].pc = "direct"
    /\ CanRun(i)
    /\ invocations' = [invocations EXCEPT ![i].first_read = Some(ReadFrom(position)),
                                          ![i].pc = "await"]
    /\ position' = StreamLen
    /\ running' = None
    /\ UNCHANGED route_frame

\* lines 94-112: the direct decode reads the stream (and the fallback, if
\* any, reads what is left); the invocation then runs without an await to
\* the gather of its segment tasks, or to an exception
InvocationLoads(i) ==
    /\ invocations[i].pc = "load"
    /\ CanRun(i)
    /\ \E next \in {"await", "done"} :
          invocations' = [invocations EXCEPT
                             ![i].first_read = Some(ReadFrom(position)),
                             ![i].pc = next]
    /\ position' = StreamLen
    /\ running' = None
    /\ UNCHANGED route_frame

\* the awaited call or gather is done: the invocation runs to its end
InvocationResumes(i) ==
    /\ invocations[i].pc = "await"
    /\ IsNone(running)
    /\ invocations' = [invocations EXCEPT ![i].pc = "done"]
    /\ UNCHANGED <<running, position, route_frame>>

NextRoute ==
    \/ \E i \in 1..Len(invocations) : InvocationResets(i)
    \/ \E i \in 1..Len(invocations) : InvocationDetects(i)
    \/ \E i \in 1..Len(invocations) : InvocationDecides(i)
    \/ \E i \in 1..Len(invocations) : InvocationReadsDirectly(i)
    \/ \E i \in 1..Len(invocations) : InvocationLoads(i)
    \/ \E i \in 1..Len(invocations) : InvocationResumes(i)

SpecRoute == InitRoute /\ [][NextRoute]_vars

(***************************************************************************)
(* The client dependency: get_openai_async_client, entered by every        *)
(* request of the process.  Instance n is the n-th AsyncOpenAI constructed. *)
(***************************************************************************)
RequestCount == 4

Request == [pc |-> "waiting", client |-> None]

InitClient ==
    /\ async_openai_client = None
    /\ constructed = 0
    /\ requests = [i \in 1..RequestCount |-> Request]
    /\ active_connections = <<>>
    /\ socket_events = <<>>
    /\ chat = NoChat
    /\ audio_file = [filename |-> None, content_type |-> None, size |-> None]
    /\ position = 0
    /\ chunk_size_ms = None
    /\ speed_up_factor = 10
    /\ phases = <<"Called">>
    /\ pc = "reset"
    /\ detected_audio_format = None
    /\ raw_audio = None
    /\ processed_audio = None
    /\ optimal_chunk_size = None
    /\ audio_segments = <<>>
    /\ tasks = <<>>
    /\ gather_exception = None
    /\ calls = <<>>
    /\ finished = <<>>
    /\ temp_files = {}
    /\ outcome = Pending
    /\ ops = <<>>
    /\ loaders = <<>>
    /\ invocations = <<>>
    /\ running = None

\* the variables clients/__init__.py does not touch
client_frame ==
    <<audio_file, position, chunk_size_ms, speed_up_factor, phases, pc,
      detected_audio_format, raw_audio, processed_audio, optimal_chunk_size,
      audio_segments, tasks, gather_exception, calls, finished, temp_files,
      outcome, ops, loaders, invocations, running, socket_vars, chat>>

\* lines 12-16: the global is tested and assigned with no await in between,
\* then yielded to the request's handler
GetOpenaiAsyncClient(i) ==
    /\ requests[i].pc = "waiting"
    /\ IF IsNone(async_openai_client)
       THEN /\ async_openai_client' = Some(constructed + 1)
            /\ constructed' = constructed + 1
       ELSE UNCHANGED <<async_openai_client, constructed>>
    /\ requests' = [requests EXCEPT ![i].client = async_openai_client',
                                    ![i].pc = "injected"]
    /\ UNCHANGED client_frame

\* the request's handler ends, well or not
HandlerEnds(i) ==
    /\ requests[i].pc = "injected"
    /\ requests' = [requests EXCEPT ![i].pc = "exiting"]
    /\ UNCHANGED <<async_openai_client, constructed, client_frame>>

\* the finally clause drops the global
GeneratorExitsKillingClient(i) ==
    /\ requests[i].pc = "exiting"
    /\ async_openai_client' = None
    /\ requests' = [requests EXCEPT ![i].pc = "done"]
    /\ UNCHANGED <<constructed, client_frame>>

\* lines 17-19: the finally clause prints and passes
GeneratorExits(i) ==
    /\ requests[i].pc = "exiting"
    /\ requests' = [requests EXCEPT ![i].pc = "done"]
    /\ UNCHANGED <<async_openai_client, constructed, client_frame>>

NextClient ==
    \/ \E i \in 1..Len(requests) : GetOpenaiAsyncClient(i)
    \/ \E i \in 1..Len(requests) : HandlerEnds(i)
    \/ \E i \in 1..Len(requests) : GeneratorExits(i)

SpecClient == InitClient /\ [][NextClient]_vars

(***************************************************************************)
(* The Socket.IO registry: connect and disconnect, in any sequence.  Both  *)
(* handlers run without an await, so each event is one step.               *)
(***************************************************************************)
MaxSocketEvents == 4

SidInputs == {"sid1", "sid2"}

EnvironInputs == {"environ1", "environ2"}

\* the variables of the sound pipeline, its route and its client
pipeline_vars ==
    <<audio_file, position, chunk_size_ms, speed_up_factor, phases, pc,
      detected_audio_format, raw_audio, processed_audio, optimal_chunk_size,
      audio_segments, tasks, gather_exception, calls, finished, temp_files,
      outcome, ops, loaders, invocations, running, client_vars>>

InitPipelineIdle ==
    /\ audio_file = [filename |-> None, content_type |-> None, size |-> None]
    /\ position = 0
    /\ chunk_size_ms = None
    /\ speed_up_factor = 10
    /\ phases = <<"Called">>
    /\ pc = "reset"
    /\ detected_audio_format = None
    /\ raw_audio = None
    /\ processed_audio = None
    /\ optimal_chunk_size = None
    /\ audio_segments = <<>>
    /\ tasks = <<>>
    /\ gather_exception = None
    /\ calls = <<>>
    /\ finished = <<>>
    /\ temp_files = {}
    /\ outcome = Pending
    /\ ops = <<>>
    /\ loaders = <<>>
    /\ invocations = <<>>
    /\ running = None
    /\ async_openai_client = None
    /\ constructed = 0
    /\ requests = <<>>

\* active_connections: dict[str, dict] = {}
InitSockets ==
    /\ active_connections = <<>>
    /\ socket_events = <<>>
    /\ chat = NoChat
    /\ InitPipelineIdle

\* registry[sid] = environ
DictSet(registry, sid, environ) ==
    [s \in DOMAIN registry \cup {sid} |->
        IF s = sid THEN environ ELSE registry[s]]

\* del registry[sid], for a key that is there
DictDel(registry, sid) ==
    [s \in DOMAIN registry \ {sid} |-> registry[s]]

SocketEvent(event, sid, raised, after) ==
    [event |-> event, sid |-> sid, raised |-> raised,
     before |-> active_connections, after |-> after]

\* connect, lines 11-15 (and src/backend/sockets.py lines 18-22)
Connect(sid, environ) ==
    /\ Len(socket_events) < MaxSocketEvents
    /\ active_connections' = DictSet(active_connections, sid, environ)
    /\ socket_events' = Append(socket_events,
          SocketEvent("connect", sid, FALSE, active_connections'))
    /\ UNCHANGED <<pipeline_vars, chat>>

\* active_connections.pop(sid, None): an unknown session id is passed over
DisconnectForgiving(sid) ==
    /\ Len(socket_events) < MaxSocketEvents
    /\ active_connections' =
          IF sid \in DOMAIN active_connections
          THEN DictDel(active_connections, sid) ELSE active_connections
    /\ socket_events' = Append(socket_events,
          SocketEvent("disconnect", sid, FALSE, active_connections'))
    /\ UNCHANGED <<pipeline_vars, chat>>

\* disconnect, lines 28-31 (and src/backend/sockets.py lines 35-38): del
\* raises KeyError for a key that is not there
Disconnect(sid) ==
    /\ Len(socket_events) < MaxSocketEvents
    /\ IF sid \in DOMAIN active_connections
       THEN /\ active_connections' = DictDel(active_connections, sid)
            /\ socket_events' = Append(socket_events,
                  SocketEvent("disconnect", sid, FALSE, active_connections'))
       ELSE /\ UNCHANGED active_connections
            /\ socket_events' = Append(socket_events,
                  SocketEvent("disconnect", sid, TRUE, active_connections))
    /\ UNCHANGED <<pipeline_vars, chat>>

NextSockets ==
    \/ \E sid \in SidInputs, environ \in EnvironInputs : Connect(sid, environ)
    \/ \E sid \in SidInputs : Disconnect(sid)

SpecSockets == InitSockets /\ [][NextSockets]_vars

(***************************************************************************)
(* The SSE chat stream: one request's event_generator, stepped from one    *)
(* suspension point (an await on the upstream, or a yield to the response) *)
(* to the next.                                                            *)
(***************************************************************************)
MaxChunks == 3

\* chunk.choices[0].delta.content of an upstream chunk that has content
ContentInputs == {"a", "b"}

\* a content event: finish_reason=None
ContentEvent(content) == [content |-> content, finish_reason |-> None]

\* the final message: content "", finish_reason="stop"
FinalResponse == [content |-> "", finish_reason |-> Some("stop")]

\* the error message: content "Error: ...", finish_reason="error"
ErrorResponse == [content |-> "Error", finish_reason |-> Some("error")]

\* EventSourceResponse(event_generator()): the generator awaits the upstream
\* stream's creation
InitChat ==
    /\ chat = [pc |-> "create", events |-> <<>>, received |-> 0,
               raised |-> FALSE]
    /\ active_connections = <<>>
    /\ socket_events = <<>>
    /\ InitPipelineIdle

chat_frame == <<pipeline_vars, socket_vars>>

\* lines 53-62: the upstream stream is created
ChatCreateReturns ==
    /\ chat.pc = "create"
    /\ chat' = [chat EXCEPT !.pc = "next"]
    /\ UNCHANGED chat_frame

\* lines 53-59 raise: the except branch yields the error message
ChatCreateRaises ==
    /\ chat.pc = "create"
    /\ chat' = [chat EXCEPT !.pc = "yield_error", !.raised = TRUE,
                            !.events = Append(@, ErrorResponse)]
    /\ UNCHANGED chat_frame

\* lines 64-83: a chunk with content is yielded as a content event
ChatChunkWithContent(content) ==
    /\ chat.pc = "next"
    /\ chat.received < MaxChunks
    /\ chat' = [chat EXCEPT !.pc = "yield_content", !.received = @ + 1,
                            !.events = Append(@, ContentEvent(content))]
    /\ UNCHANGED chat_frame

\* lines 64-65: a chunk whose content is None yields nothing
ChatChunkWithoutContent ==
    /\ chat.pc = "next"
    /\ chat.received < MaxChunks
    /\ chat' = [chat EXCEPT !.received = @ + 1]
    /\ UNCHANGED chat_frame

\* the loop resumes after a content event
ChatResumesAfterContent ==
    /\ chat.pc = "yield_content"
    /\ chat' = [chat EXCEPT !.pc = "next"]
    /\ UNCHANGED chat_frame

\* lines 85-97: the upstream stream ends, the final message is yielded
ChatStreamEnds ==
    /\ chat.pc = "next"
    /\ chat' = [chat EXCEPT !.pc = "yield_stop",
                            !.events = Append(@, FinalResponse)]
    /\ UNCHANGED chat_frame

\* the exception leaves the generator: no except branch
ChatStreamRaisesUncaught ==
    /\ chat.pc = "next"
    /\ chat' = [chat EXCEPT !.pc = "ended", !.raised = TRUE]
    /\ UNCHANGED chat_frame

\* lines 64-65 raise (the upstream iteration, or choices[0] of a chunk without
\* choices): the except branch, lines 99-116, yields the error message
ChatStreamRaises ==
    /\ chat.pc = "next"
    /\ chat' = [chat EXCEPT !.pc = "yield_error", !.raised = TRUE,
                            !.events = Append(@, ErrorResponse)]
    /\ UNCHANGED chat_frame

\* the generator resumes after the final or the error message and returns
ChatReturns ==
    /\ chat.pc \in {"yield_stop", "yield_error"}
    /\ chat' = [chat EXCEPT !.pc = "ended"]
    /\ UNCHANGED chat_frame

\* the client goes away and the response stops consuming: CancelledError at an
\* await, GeneratorExit at a yield; `except Exception` catches neither
ChatClosed ==
    /\ chat.pc \in {"create", "next", "yield_content", "yield_stop",
                    "yield_error"}
    /\ chat' = [chat EXCEPT !.pc = "closed"]
    /\ UNCHANGED chat_frame

NextChat ==
    \/ ChatCreateReturns
    \/ ChatCreateRaises
    \/ \E content \in ContentInputs : ChatChunkWithContent(content)
    \/ ChatChunkWithoutContent
    \/ ChatResumesAfterContent
    \/ ChatStreamEnds
    \/ ChatStreamRaises
    \/ ChatReturns
    \/ ChatClosed

SpecChat == InitChat /\ [][NextChat]_vars

(***************************************************************************)
(* Properties                                                              *)
(***************************************************************************)
Entered(p) == \E i \in 1..Len(phases) : phases[i] = p

Count(seq, x) == Cardinality({ i \in 1..Len(seq) : seq[i] = x })

\* the split ran and returned its list
SplitDone == Count(ops, "split") = 1 /\ Get(optimal_chunk_size) # 0

\* the request of call c carries the export of the time range [from, to)
CallCarries(c, from, to) ==
    /\ calls[c].file_tuple.data.kind = "export"
    /\ calls[c].file_tuple.data.from = from
    /\ calls[c].file_tuple.data.to = to

\* C1: a full-pipeline invocation that split the audio into N segments
\* returns, whatever the order in which the N remote calls ended, a list of
\* exactly N elements whose i-th element is the answer to the call that
\* carried the i-th chronological chunk.
C1_OutputInSegmentOrder ==
    (phase = "Completed" /\ Entered("FullPipeline")) =>
        LET L == Get(processed_audio)
            c == Get(optimal_chunk_size)
            N == Len(audio_segments)
        IN  /\ outcome.kind = "returned"
            /\ Len(outcome.value) = N
            /\ \A i \in 1..N :
                  \E id \in 1..Len(calls) :
                     /\ CallCarries(id, (i - 1) * c, IF i * c < L THEN i * c ELSE L)
                     /\ outcome.value[i].call = id

\* three segments whose calls ended in reverse order
C1_Witness ==
    /\ phase = "Completed"
    /\ Len(audio_segments) = 3
    /\ finished = <<3, 2, 1>>

SegmentCallFailed ==
    \E id \in 1..Len(calls) : calls[id].task > 0 /\ calls[id].status = "error"

\* C2: once the remote call of a segment has failed, transcribe never
\* returns a list (complete or partial): it ends, if it ends, by raising.
C2_AllOrNothing ==
    SegmentCallFailed =>
        /\ outcome.kind # "returned"
        /\ phase # "Completed"
        /\ pc = "done" => (phase = "Failed" /\ outcome.kind = "raised")

\* two of three segments answered, then the third failed
C2_Witness ==
    /\ Len(tasks) = 3
    /\ finished = <<1, 2, 3>>
    /\ tasks[1].state = "done" /\ tasks[2].state = "done"
    /\ tasks[3].call > 0
    /\ calls[tasks[3].call].status = "error"
    /\ phase = "Failed"

\* C3: a full-pipeline invocation completes only when every segment's task
\* has ended with its call answered, none being in flight; an invocation
\* that resolves while a segment task is still pending or in flight has
\* failed, and a segment task has raised.
C3_JoinBarrier ==
    /\ (phase = "Completed" /\ Entered("FullPipeline")) =>
          /\ Len(tasks) = Len(audio_segments)
          /\ \A k \in 1..Len(tasks) :
                tasks[k].state = "done" /\ calls[tasks[k].call].status = "ok"
          /\ \A id \in 1..Len(calls) : calls[id].status # "inflight"
    /\ (pc = "done"
        /\ \E k \in 1..Len(tasks) : tasks[k].state \in {"pending", "awaiting"}) =>
          /\ phase = "Failed"
          /\ \E k \in 1..Len(tasks) : tasks[k].state = "raised"

\* completed after four segments whose calls ended out of order
C3_Witness ==
    /\ phase = "Completed"
    /\ Len(tasks) = 4
    /\ finished = <<2, 4, 1, 3>>

\* the decision has been taken
Decided == phase \notin {"Called", "Received", "FormatDetected"}

\* the fast path's condition, on the invocation's inputs
FastPathCase ==
    /\ Get(detected_audio_format) = M4A
    /\ speed_up_factor = 10
    /\ (IsNone(audio_file.size) \/ Get(audio_file.size) <= 3932160)

\* C4: when the fast path's condition holds, the invocation decodes nothing,
\* applies no speed change, splits nothing and exports nothing; it issues
\* one remote call, whose bytes are the whole upload as it is, and it
\* returns the one-element list of that call's answer.
C4_FastPath ==
    (Decided /\ FastPathCase) =>
        /\ Entered("FastPath") /\ ~Entered("FullPipeline")
        /\ \A i \in 1..Len(ops) : ops[i] \in {"seek0", "detect", "decide", "read", "submit"}
        /\ raw_audio = None /\ processed_audio = None
        /\ audio_segments = <<>> /\ tasks = <<>> /\ temp_files = {}
        /\ Len(calls) <= 1
        /\ pc \in {"await", "done"} =>
              /\ Len(calls) = 1
              /\ calls[1].file_tuple.data.kind = "upload"
              /\ calls[1].file_tuple.data.blocks = Content
        /\ phase = "Completed" =>
              /\ calls[1].status = "ok"
              /\ outcome.kind = "returned"
              /\ outcome.value = << [call |-> 1] >>

\* a fast path that completed, for a size at the threshold
C4_Witness ==
    /\ phase = "Completed"
    /\ Entered("FastPath")
    /\ audio_file.size = Some(3932160)
    /\ Len(outcome.value) = 1

\* C5: the fast path is taken if and only if the format is m4a, the factor is
\* 1.0 and the size is at most 3,932,160 bytes (an estimate of at most
\* 1,800,000 ms); every other invocation takes the full pipeline.
C5_FastPathDecision ==
    Decided =>
        /\ Entered("FastPath") <=> FastPathCase
        /\ Entered("FullPipeline") <=> ~FastPathCase

\* one byte over the threshold: the full pipeline
C5_Witness ==
    /\ Entered("FullPipeline")
    /\ Get(detected_audio_format) = M4A
    /\ speed_up_factor = 10
    /\ audio_file.size = Some(3932161)

PhaseSteps ==
    { <<"Called", "Received">>, <<"Received", "FormatDetected">>,
      <<"FormatDetected", "FastPath">>, <<"FormatDetected", "FullPipeline">>,
      <<"FastPath", "Completed">>, <<"FastPath", "Failed">>,
      <<"FullPipeline", "Completed">>, <<"FullPipeline", "Failed">> }

\* C6: the phase changes only along Received -> FormatDetected -> (FastPath
\* or FullPipeline) -> (Completed or Failed), entered from the call; the
\* branch is evaluated once, and no invocation enters both FastPath and
\* FullPipeline.
C6_PhaseMachine ==
    [][ /\ phases' # phases =>
              /\ phases' = Append(phases, phase')
              /\ <<phase, phase'>> \in PhaseSteps
        /\ Count(ops', "decide") = IF Decided' THEN 1 ELSE 0
        /\ ~(Entered("FastPath")' /\ Entered("FullPipeline")') ]_vars

\* a fast path whose call failed: the invocation failed, with no full pipeline
C6_Witness ==
    /\ phases = <<"Called", "Received", "FormatDetected", "FastPath", "Failed">>
    /\ calls[1].status = "error"

\* C7: every segment submitted by a full-pipeline invocation lasts at most
\* MAX_CHUNK_DURATION_MS, for any duration, speed factor and supplied
\* chunk_size_ms.
C7_SegmentsWithinCeiling ==
    \A id \in 1..Len(calls) :
        calls[id].file_tuple.data.kind = "export" =>
            calls[id].file_tuple.data.to - calls[id].file_tuple.data.from
                <= 1800000

\* C8: when no chunk size is supplied, the chunk duration computed for a raw
\* duration D is min(D, 1,800,000): 1,800,000 for D = 1,900,000 and 500,000
\* for D = 500,000.
C8_ChunkCeiling ==
    (~IsNone(optimal_chunk_size)
     /\ (IsNone(chunk_size_ms) \/ Get(chunk_size_ms) = 0)) =>
        LET D == Get(raw_audio)
            chunk == Get(optimal_chunk_size)
        IN  /\ chunk = IF D < 1800000 THEN D ELSE 1800000
            /\ D = 1900000 => chunk = 1800000
            /\ D = 500000 => chunk = 500000

\* a duration above the ceiling
C8_Witness ==
    /\ IsNone(chunk_size_ms)
    /\ raw_audio = Some(1900000)
    /\ optimal_chunk_size = Some(1800000)

\* C9: audio of length L > 0 split with chunk size c > 0 gives ceil(L / c)
\* segments, the k-th (from 0) covering [k*c, min((k+1)*c, L)): contiguous,
\* not overlapping, covering [0, L), only the last possibly shorter than c;
\* the index a task attaches to a segment is the segment's position.
C9_Split ==
    (SplitDone /\ Get(processed_audio) > 0 /\ Get(optimal_chunk_size) > 0) =>
        LET L == Get(processed_audio)
            c == Get(optimal_chunk_size)
            N == Len(audio_segments)
        IN  /\ N = (L + c - 1) \div c
            /\ \A k \in 1..N :
                  /\ audio_segments[k].from = (k - 1) * c
                  /\ audio_segments[k].to = IF k * c < L THEN k * c ELSE L
                  /\ audio_segments[k].from < audio_segments[k].to
                  /\ k < N => /\ audio_segments[k].to = audio_segments[k + 1].from
                              /\ audio_segments[k].to - audio_segments[k].from = c
            /\ audio_segments[1].from = 0
            /\ audio_segments[N].to = L
            /\ pc \in {"await", "done"} => Len(tasks) = N
            /\ \A k \in 1..Len(tasks) :
                  /\ tasks[k].index = k - 1
                  /\ tasks[k].segment = audio_segments[k]
                  /\ ~IsNone(tasks[k].result) => Get(tasks[k].result).index = k - 1

\* three segments, the last one 1 ms long, each with its task
C9_Witness ==
    /\ Len(audio_segments) = 3
    /\ audio_segments[3] = [from |-> 3600000, to |-> 3600001]
    /\ Len(tasks) = 3

\* the table of section 4.5: source format -> (codec, bitrate)
ExportTable(source) ==
    CASE source = M4A  -> <<OGG, K64>>
      [] source = MP4  -> <<OGG, K64>>
      [] source = MP3  -> <<MP4, K96>>
      [] source = WAV  -> <<OGG, K96>>
      [] source = FLAC -> <<OGG, K96>>
      [] source = OGG  -> <<OGG, K48>>
      [] source = WEBM -> <<OGG, K96>>
      [] OTHER -> <<OGG, K96>>

Detected == ~IsNone(detected_audio_format)

SupportedFormats == {MP3, MP4, M4A, WAV, FLAC, OGG, WEBM}

\* the recognized extension of each filename input, read off the name: the
\* last dot-suffix of the final path component, case ignored, when the
\* component does not begin or end with that dot
RecognizedExtension(filename) ==
    CASE filename = Some(<<"x",".","w","a","v">>) -> Some(WAV)
      [] filename = Some(<<"b",".","W","A","V">>) -> Some(WAV)
      [] filename = Some(<<"a",".","m","p","3">>) -> Some(MP3)
      [] filename = Some(<<"a",".","m","p","4">>) -> Some(MP4)
      [] filename = Some(<<"a",".","m","4","a">>) -> Some(M4A)
      [] filename = Some(<<"a",".","f","l","a","c">>) -> Some(FLAC)
      [] filename = Some(<<"a",".","o","g","g">>) -> Some(OGG)
      [] filename = Some(<<"a",".","w","e","b","m">>) -> Some(WEBM)
      [] filename = Some(<<"a",".","t","a","r",".","o","g","g">>) -> Some(OGG)
      [] filename = Some(<<"a",".","w","a","v","/">>) -> Some(WAV)
      [] OTHER -> None

\* the format each content-type input stands for under the priority order
\* (mp4 or m4a) > mp3 > wav, case ignored
ContentTypeFormat(content_type) ==
    CASE content_type = Some(<<"a","u","d","i","o","/","m","p","3">>) -> Some(MP3)
      [] content_type = Some(<<"a","u","d","i","o","/","m","p","4">>) -> Some(M4A)
      [] content_type = Some(<<"a","u","d","i","o","/","x","-","m","4","a">>) -> Some(M4A)
      [] content_type = Some(<<"a","u","d","i","o","/","w","a","v">>) -> Some(WAV)
      [] content_type = Some(<<"A","U","D","I","O","/","W","A","V">>) -> Some(WAV)
      [] content_type = Some(<<"a","u","d","i","o","/","m","p","4",";","w","a","v">>) -> Some(M4A)
      [] content_type = Some(<<"a","u","d","i","o","/","w","a","v","-","m","p","3">>) -> Some(MP3)
      [] OTHER -> None

\* C11: a filename with a recognized extension decides the format, whatever
\* the content type says; without one the result is what the content type
\* alone gives; when neither yields a format the result is mp3.
C11_FilenameWins ==
    Detected =>
        LET extension == RecognizedExtension(audio_file.filename)
            result    == Get(detected_audio_format)
        IN  /\ ~IsNone(extension) => result = Get(extension)
            /\ IsNone(extension) =>
                  result = DetermineAudioFormat(None, audio_file.content_type)
            /\ (IsNone(extension) /\ IsNone(ContentTypeFormat(audio_file.content_type)))
                  => result = MP3

\* "x.wav" uploaded as audio/mp3 is detected as wav
C11_Witness ==
    /\ audio_file.filename = Some(<<"x",".","w","a","v">>)
    /\ audio_file.content_type = Some(<<"a","u","d","i","o","/","m","p","3">>)
    /\ detected_audio_format = Some(WAV)

\* C12: when the filename decides nothing, the content type decides by
\* substring, case ignored, in the order (mp4 or m4a) -> m4a, mp3 -> mp3,
\* wav -> wav, anything else -> mp3.
C12_ContentTypeOrder ==
    (Detected /\ IsNone(RecognizedExtension(audio_file.filename))) =>
        LET format == ContentTypeFormat(audio_file.content_type)
        IN  detected_audio_format = IF IsNone(format) THEN Some(MP3) ELSE format

\* a content type holding both "mp4" and "wav", with no filename, gives m4a
C12_Witness ==
    /\ IsNone(audio_file.filename)
    /\ audio_file.content_type
          = Some(<<"a","u","d","i","o","/","m","p","4",";","w","a","v">>)
    /\ detected_audio_format = Some(M4A)

\* C13: for every filename and content type the detector yields a value, and
\* the value is one of the seven supported formats.
C13_AlwaysASupportedFormat ==
    /\ phase = "FormatDetected" => Detected
    /\ Detected => Get(detected_audio_format) \in SupportedFormats

\* an unsupported extension with an unmatched content type still gives mp3
C13_Witness ==
    /\ audio_file.filename = Some(<<"a",".","t","x","t">>)
    /\ audio_file.content_type = Some(<<"a","u","d","i","o","/","o","g","g">>)
    /\ detected_audio_format = Some(MP3)

(***************************************************************************)
(* C14..C16: the loader and its temporary file                             *)
(***************************************************************************)
LoadDone == Entered("FullPipeline") /\ pc # "load"

DirectDecodeRaised == Count(ops, "decode_raised") = 1

FallbackDecodeRaised == Count(ops, "temp_decode_raised") = 1

\* C14: the loader fails exactly when the direct decode and the decode of the
\* temporary file both raise; a direct decode that raises is always followed
\* by the temporary-file decode, and when that one succeeds the invocation
\* holds its audio and goes on.
C14_FallbackLoad ==
    LoadDone =>
        /\ IsNone(raw_audio) <=> (DirectDecodeRaised /\ FallbackDecodeRaised)
        /\ DirectDecodeRaised =>
              Count(ops, "temp_write") = 1 /\ Count(ops, "temp_decode") = 1
        /\ (DirectDecodeRaised /\ ~FallbackDecodeRaised) =>
              /\ ~IsNone(raw_audio)
              /\ outcome # Raised(Error("DecodeError", 0))
        /\ IsNone(raw_audio) =>
              pc = "done" /\ outcome = Raised(Error("DecodeError", 0))

\* the direct decode raised, the fallback decoded, and the invocation
\* completed with a result
C14_Witness ==
    /\ DirectDecodeRaised
    /\ ~FallbackDecodeRaised
    /\ phase = "Completed"
    /\ outcome.kind = "returned"
    /\ Len(outcome.value) = 2

\* C15: once the loader has returned or raised, the temporary file it may
\* have written no longer exists.
C15_TemporaryFileRemoved ==
    LoadDone => temp_files = {}

InFallback(i) == loaders[i].pc \in {"decode", "cleanup"}

\* C16: two invocations that are in the fallback path at the same time use
\* different temporary file paths.
C16_DistinctTemporaryPaths ==
    \A i, j \in 1..Len(loaders) :
        (i # j /\ InFallback(i) /\ InFallback(j)) =>
            loaders[i].temp_filename # loaders[j].temp_filename

(***************************************************************************)
(* C17, C18: the speed factor                                              *)
(***************************************************************************)
\* C17: an invocation with a speed factor <= 0 decodes nothing, transforms
\* nothing, calls nothing, and ends with an InvalidArgument error.
C17_NonPositiveFactorRejected ==
    speed_up_factor <= 0 =>
        /\ Count(ops, "decode") = 0
        /\ Count(ops, "speedup") = 0
        /\ calls = <<>>
        /\ pc = "done" => outcome = Raised(Error("InvalidArgument", 0))

SpeedStepTaken == LoadDone /\ ~IsNone(raw_audio) /\ pc # "speed"

\* C18: the speed-up transform has been invoked exactly when the speed step
\* was taken with a factor other than 1.0, and with factor 1.0 the processed
\* audio is the raw audio.
C18_UnitFactorIsIdentity ==
    /\ Count(ops, "speedup") = IF SpeedStepTaken /\ speed_up_factor # 10 THEN 1 ELSE 0
    /\ (SpeedStepTaken /\ speed_up_factor = 10) => processed_audio = raw_audio

\* factor 1.0 on a decoded upload of 1,900,000 ms
C18_Witness ==
    /\ SpeedStepTaken
    /\ speed_up_factor = 10
    /\ raw_audio = Some(1900000)
    /\ processed_audio = Some(1900000)
    /\ Count(ops, "speedup") = 0

(***************************************************************************)
(* C19, C20: remote calls and errors                                       *)
(***************************************************************************)
CallsOf(k) == { c \in 1..Len(calls) : calls[c].task = k }

\* C19: no task issues more than one remote call and no call is issued
\* outside a task or the fast path; a completed full pipeline of N segments
\* has issued exactly N calls; the fast path, once it has submitted, has
\* issued exactly one.
C19_NoRetry ==
    /\ \A k \in 1..Len(tasks) : Cardinality(CallsOf(k)) <= 1
    /\ Entered("FullPipeline") => Len(calls) <= Len(tasks)
    /\ (Entered("FullPipeline") /\ phase = "Completed") =>
          Len(calls) = Len(audio_segments)
    /\ Entered("FastPath") =>
          Len(calls) = IF Count(ops, "submit") = 1 THEN 1 ELSE 0

\* three segments completed with three calls, one per task
C19_Witness ==
    /\ phase = "Completed"
    /\ Len(audio_segments) = 3
    /\ Len(calls) = 3
    /\ \A k \in 1..3 : Cardinality(CallsOf(k)) = 1

\* the exception task k ended with
TaskError(k) ==
    IF tasks[k].call = 0
    THEN Error("ExportError", 0)
    ELSE Error("RemoteServiceError", tasks[k].call)

RaisedTasks == { k \in 1..Len(tasks) : tasks[k].state = "raised" }

\* the task that raised before every other task that raised
FirstRaisedTask ==
    LET at == CHOOSE i \in 1..Len(finished) :
                  /\ finished[i] \in RaisedTasks
                  /\ \A h \in 1..(i - 1) : finished[h] \notin RaisedTasks
    IN  finished[at]

SpeedupRaised == Count(ops, "speedup") = 1 /\ IsNone(processed_audio) /\ pc = "done"

SplitRaised == Count(ops, "split") = 1 /\ optimal_chunk_size = Some(0)

FastPathCallRaised ==
    Entered("FastPath") /\ Len(calls) = 1 /\ calls[1].status = "error"

\* C20 as stated: once transcribe has ended, every error that occurred other
\* than a failed direct decode is the error its caller received.
C20_EveryErrorReachesCaller ==
    pc = "done" =>
        /\ FallbackDecodeRaised => outcome = Raised(Error("DecodeError", 0))
        /\ FastPathCallRaised => outcome = Raised(Error("RemoteServiceError", 1))
        /\ \A k \in RaisedTasks : outcome = Raised(TaskError(k))

\* C20, amended: a failed direct decode alone never fails the invocation;
\* a failed fallback decode, speed-up, split or fast-path call reaches the
\* caller as that error; of the segment tasks that raise, the first one's
\* error reaches the caller; and a result is returned only when none of
\* these occurred.
C20_FirstErrorReachesCaller ==
    pc = "done" =>
        /\ FallbackDecodeRaised => outcome = Raised(Error("DecodeError", 0))
        /\ SpeedupRaised => outcome = Raised(Error("SpeedupError", 0))
        /\ SplitRaised => outcome = Raised(Error("ValueError", 0))
        /\ FastPathCallRaised => outcome = Raised(Error("RemoteServiceError", 1))
        /\ RaisedTasks # {} => outcome = Raised(TaskError(FirstRaisedTask))
        /\ outcome.kind = "returned" =>
              /\ RaisedTasks = {}
              /\ \A c \in 1..Len(calls) : calls[c].status = "ok"
        /\ outcome.kind = "raised" =>
              \/ FallbackDecodeRaised \/ SpeedupRaised \/ SplitRaised
              \/ FastPathCallRaised \/ RaisedTasks # {}

\* two segment calls raised; the caller holds the error of the one that
\* raised first, which is not the first segment's
C20_Witness ==
    /\ pc = "done"
    /\ Cardinality(RaisedTasks) = 2
    /\ FirstRaisedTask = 2
    /\ 1 \in RaisedTasks
    /\ outcome = Raised(TaskError(2))
    /\ TaskError(1) # TaskError(2)

(***************************************************************************)
(* C21: the assembler                                                      *)
(***************************************************************************)
\* the pairs handed to the assembler, in the order handed
AssemblerInput == GatherResults(tasks)

\* the number of pairs whose index is below pair's
Rank(pairs, pair) ==
    Cardinality({ h \in 1..Len(pairs) : pairs[h].index < pair.index })

\* C21: for pairs with distinct indices the assembler's output has the
\* length of its input and holds, at place r + 1, the result of the pair
\* that has exactly r smaller indices in the input: results in strictly
\* ascending index order, indices dropped, whatever the order of the input.
C21_AssemblePermutationInvariant ==
    outcome.kind = "returned" =>
        /\ Len(outcome.value) = Len(AssemblerInput)
        /\ \A k \in 1..Len(AssemblerInput) :
              outcome.value[Rank(AssemblerInput, AssemblerInput[k]) + 1]
                  = AssemblerInput[k].transcription

\* the input indices 2, 0, 3 with results of calls 1, 2, 1 come out as the
\* results of calls 2, 1, 1
C21_Witness ==
    /\ Len(tasks) = 3
    /\ <<tasks[1].index, tasks[2].index, tasks[3].index>> = <<2, 0, 3>>
    /\ <<tasks[1].call, tasks[2].call, tasks[3].call>> = <<1, 2, 1>>
    /\ outcome = Returned(<<Transcription(2), Transcription(1), Transcription(1)>>)

(***************************************************************************)
(* C22: termination                                                        *)
(***************************************************************************)
\* C22: every invocation eventually reaches Completed or Failed.
C22_Terminates == <>(phase \in {"Completed", "Failed"})

\* an invocation that ended Failed while a segment call was still in flight
C22_Witness ==
    /\ phase = "Failed"
    /\ Entered("FullPipeline")
    /\ \E k \in 1..Len(tasks) : tasks[k].state = "awaiting"

(***************************************************************************)
(* C23: invocations sharing one stream                                     *)
(***************************************************************************)
\* C23: the first read of every invocation, fast-path read or direct decode,
\* sees the whole content of the upload, whichever invocations ran before
\* it on the same stream.
C23_EveryInvocationReadsWholeStream ==
    \A i \in 1..Len(invocations) :
        ~IsNone(invocations[i].first_read) =>
            Get(invocations[i].first_read) = Content

\* the factor-1.0 invocation read the stream on the fast path and is
\* awaiting its call; the factor-2.0 invocation then decoded the whole stream
C23_Witness ==
    /\ Len(invocations) = 5
    /\ invocations[1].pc = "await"
    /\ invocations[1].first_read = Some(Content)
    /\ audio_file.size = Some(1)
    /\ invocations[3].first_read = Some(Content)
    /\ IsNone(invocations[2].first_read)

(***************************************************************************)
(* C24: the shared client                                                  *)
(***************************************************************************)
\* C24: no instance exists before the first request asks for one; at most
\* one instance is ever constructed; once constructed it stays the global;
\* every request that was given a client was given that instance.
C24_ClientCreatedOnce ==
    /\ constructed <= 1
    /\ (\A i \in 1..Len(requests) : requests[i].pc = "waiting") <=> constructed = 0
    /\ async_openai_client = IF constructed = 0 THEN None ELSE Some(1)
    /\ \A i \in 1..Len(requests) :
          requests[i].pc # "waiting" => requests[i].client = Some(1)

\* one request has finished, two are being handled at the same time and the
\* last has not started: the three hold the same instance
C24_Witness ==
    /\ Len(requests) >= 4
    /\ requests[1].pc = "done"
    /\ requests[2].pc = "injected"
    /\ requests[3].pc = "injected"
    /\ requests[4].pc = "waiting"
    /\ requests[1].client = Some(1)
    /\ requests[2].client = Some(1)
    /\ requests[3].client = Some(1)
    /\ constructed = 1

(***************************************************************************)
(* C25: cancellation                                                       *)
(***************************************************************************)
\* C25: once a segment failure has been surfaced to the caller, no segment
\* task of the invocation is still running.
C25_FailureCancelsOtherTasks ==
    (phase = "Failed" /\ RaisedTasks # {}) =>
        \A k \in 1..Len(tasks) : tasks[k].state \in {"done", "raised", "cancelled"}

(***************************************************************************)
(* C26: what the fallback writes                                           *)
(***************************************************************************)
\* C26: the temporary file of the fallback holds the whole content of the
\* upload, from its first byte.
C26_TemporaryFileHoldsWholeStream ==
    \A f \in temp_files : f.data = Content

(***************************************************************************)
(* C27: the order of exports and calls                                     *)
(***************************************************************************)
\* the places of ops that hold an export or a submit of a segment task
SegmentOps == SelectSeq(ops, LAMBDA o : o \in {"export", "submit"})

Started(k) == tasks[k].state # "pending"

\* C27: in the full pipeline every submit directly follows its export; the
\* tasks start in ascending index order; and when the task of segment j has
\* started its export, the task of every segment i < j has already issued
\* its call (or has ended on its export), the call of i being issued before
\* the call of j.
C27_ExportThenSubmitInIndexOrder ==
    Entered("FullPipeline") =>
        /\ \A h \in 1..Len(SegmentOps) :
              SegmentOps[h] = "submit" => (h > 1 /\ SegmentOps[h - 1] = "export")
        /\ Count(ops, "export") = Cardinality({ k \in 1..Len(tasks) : Started(k) })
        /\ \A i, j \in 1..Len(tasks) :
              (i < j /\ Started(j)) =>
                  /\ Started(i)
                  /\ tasks[i].call > 0 \/ tasks[i].state = "raised"
                  /\ (tasks[i].call > 0 /\ tasks[j].call > 0) =>
                        tasks[i].call < tasks[j].call

\* three segment tasks have exported and submitted in turn, and all three
\* calls are in flight together
C27_Witness ==
    /\ Len(tasks) = 3
    /\ \A k \in 1..3 : tasks[k].state = "awaiting" /\ tasks[k].call = k
    /\ SegmentOps = <<"export", "submit", "export", "submit", "export", "submit">>

(***************************************************************************)
(* C28: the names sent with a request                                      *)
(***************************************************************************)
\* C28: a segment's request is named "audio.<c>" with MIME type "audio/<c>"
\* for the codec c its bytes were exported in (mp4 for an mp3 source); the
\* fast path's request carries the upload's filename, or "audio.m4a" when
\* there is none, with MIME type "audio/m4a".
C28_NamesFollowCodec ==
    \A id \in 1..Len(calls) :
        LET file_tuple == calls[id].file_tuple
        IN  IF file_tuple.data.kind = "export"
            THEN /\ file_tuple.filename
                      = <<"a","u","d","i","o",".">> \o file_tuple.data.codec
                 /\ file_tuple.mime
                      = <<"a","u","d","i","o","/">> \o file_tuple.data.codec
                 /\ detected_audio_format = Some(MP3) =>
                      /\ file_tuple.filename = <<"a","u","d","i","o",".","m","p","4">>
                      /\ file_tuple.mime = <<"a","u","d","i","o","/","m","p","4">>
            ELSE /\ file_tuple.filename =
                      IF audio_file.filename \in {None, Some(<<>>)}
                      THEN <<"a","u","d","i","o",".","m","4","a">>
                      ELSE Get(audio_file.filename)
                 /\ file_tuple.mime = <<"a","u","d","i","o","/","m","4","a">>

\* two segments of an mp3 source, both sent as audio.mp4 / audio/mp4
C28_Witness ==
    /\ detected_audio_format = Some(MP3)
    /\ Len(calls) = 2
    /\ \A id \in 1..2 :
          /\ calls[id].file_tuple.filename = <<"a","u","d","i","o",".","m","p","4">>
          /\ calls[id].file_tuple.mime = <<"a","u","d","i","o","/","m","p","4">>
          /\ calls[id].file_tuple.data.codec = MP4

(***************************************************************************)
(* C29: an upload without a declared size                                  *)
(***************************************************************************)
\* C29: an upload detected as m4a, with factor 1.0 and no declared size,
\* takes the fast path.
C29_AbsentSizeTakesFastPath ==
    (/\ Decided
     /\ detected_audio_format = Some(M4A)
     /\ speed_up_factor = 10
     /\ IsNone(audio_file.size)) =>
        /\ Entered("FastPath")
        /\ ~Entered("FullPipeline")
        /\ Count(ops, "decode") = 0

\* an m4a upload without a size, sent as it is and completed
C29_Witness ==
    /\ IsNone(audio_file.size)
    /\ detected_audio_format = Some(M4A)
    /\ speed_up_factor = 10
    /\ phase = "Completed"
    /\ Len(calls) = 1
    /\ calls[1].file_tuple.data = UploadBytes(Content)

(***************************************************************************)
(* C30: the chunk size of the split                                        *)
(***************************************************************************)
Supplied == ~IsNone(chunk_size_ms) /\ Get(chunk_size_ms) # 0

\* C30: the step of the split is the supplied chunk size when there is one
\* other than 0, and otherwise the smaller of the raw duration and
\* 1,800,000 ms; the segments are cut from the speed-modified audio; with no
\* supplied size, a raw duration of at most 1,800,000 ms and a factor that
\* shortened the audio, the split gives exactly one segment.
C30_ChunkSizeFromRawDuration ==
    SplitDone =>
        /\ Get(optimal_chunk_size) =
              IF Supplied THEN Get(chunk_size_ms)
              ELSE IF Get(raw_audio) <= 1800000 THEN Get(raw_audio) ELSE 1800000
        /\ \A k \in 1..Len(audio_segments) :
              audio_segments[k].to <= Get(processed_audio)
        /\ (Len(audio_segments) > 0) =>
              audio_segments[Len(audio_segments)].to = Get(processed_audio)
        /\ (/\ ~Supplied
            /\ Get(raw_audio) <= 1800000
            /\ speed_up_factor # 10
            /\ Get(processed_audio) < Get(raw_audio)) =>
              Len(audio_segments) = 1

\* 1,800,000 ms of raw audio at factor 2.0: the chunk size is 1,800,000 and
\* the one segment is the whole shortened audio
C30_Witness ==
    /\ SplitDone
    /\ IsNone(chunk_size_ms)
    /\ raw_audio = Some(1800000)
    /\ speed_up_factor = 20
    /\ optimal_chunk_size = Some(1800000)
    /\ Get(processed_audio) < 1800000
    /\ audio_segments = <<[from |-> 0, to |-> Get(processed_audio)]>>

(***************************************************************************)
(* C31: audio of duration 0                                                *)
(***************************************************************************)
ZeroDurationCase == LoadDone /\ raw_audio = Some(0) /\ ~Supplied

\* C31 as stated: when the decoded audio lasts 0 ms and no chunk size other
\* than 0 is supplied, the invocation ends Failed at a split with step 0,
\* the computed chunk size being 0, and no call is made.
C31_ZeroDurationFailsAtSplit ==
    (ZeroDurationCase /\ pc = "done") =>
        /\ phase = "Failed"
        /\ optimal_chunk_size = Some(0)
        /\ Count(ops, "split") = 1
        /\ calls = <<>>

\* C31, amended: in that case the invocation never completes and never
\* makes a call; it ends Failed: with factor 1.0 at the split, the chunk size
\* computed being 0, and with any other factor at the speed-up, before a chunk
\* size is computed.
C31_ZeroDurationFails ==
    ZeroDurationCase =>
        /\ calls = <<>>
        /\ tasks = <<>>
        /\ phase # "Completed"
        /\ pc = "done" =>
              /\ phase = "Failed"
              /\ IF speed_up_factor = 10
                 THEN /\ optimal_chunk_size = Some(0)
                      /\ Count(ops, "split") = 1
                      /\ outcome = Raised(Error("ValueError", 0))
                 ELSE /\ IsNone(optimal_chunk_size)
                      /\ Count(ops, "split") = 0
                      /\ outcome = Raised(Error("SpeedupError", 0))

\* audio of 0 ms at factor 1.0 with no chunk size: Failed at the split
C31_Witness ==
    /\ ZeroDurationCase
    /\ IsNone(chunk_size_ms)
    /\ speed_up_factor = 10
    /\ phase = "Failed"
    /\ optimal_chunk_size = Some(0)
    /\ outcome = Raised(Error("ValueError", 0))

(***************************************************************************)
(* C32: the Socket.IO registry                                             *)
(***************************************************************************)
\* connect has run for sid and disconnect has not run for it since
ConnectedSince(sid) ==
    \E i \in 1..Len(socket_events) :
        /\ socket_events[i].event = "connect"
        /\ socket_events[i].sid = sid
        /\ \A j \in (i + 1)..Len(socket_events) :
              ~(socket_events[j].event = "disconnect" /\ socket_events[j].sid = sid)

\* C32: the keys of the registry are the session ids connected and not
\* disconnected since; a disconnect raises exactly when its session id was not
\* registered, and then the registry after it is the registry before it; a
\* connect never raises.
C32_RegistryTracksSessions ==
    /\ DOMAIN active_connections = { sid \in SidInputs : ConnectedSince(sid) }
    /\ \A i \in 1..Len(socket_events) :
          LET e == socket_events[i]
          IN  /\ e.raised <=>
                    (e.event = "disconnect" /\ e.sid \notin DOMAIN e.before)
              /\ e.raised => e.after = e.before

\* sid1 and sid2 connected, sid1 disconnected twice: the second disconnect
\* raised and sid2 alone is registered
C32_Witness ==
    /\ Len(socket_events) = 4
    /\ socket_events[1].event = "connect" /\ socket_events[1].sid = "sid1"
    /\ socket_events[2].event = "connect" /\ socket_events[2].sid = "sid2"
    /\ socket_events[3].event = "disconnect" /\ socket_events[3].sid = "sid1"
    /\ ~socket_events[3].raised
    /\ socket_events[4].event = "disconnect" /\ socket_events[4].sid = "sid1"
    /\ socket_events[4].raised
    /\ DOMAIN active_connections = {"sid2"}

(***************************************************************************)
(* C33: the terminal event of the SSE chat stream                          *)
(***************************************************************************)
IsTerminal(event) == ~IsNone(event.finish_reason)

TerminalEvents == { i \in 1..Len(chat.events) : IsTerminal(chat.events[i]) }

ExpectedFinishReason == IF chat.raised THEN "error" ELSE "stop"

\* the terminal events there are come last, after every content event, and
\* carry the finish_reason of how the upstream went
TerminalEventIsLast ==
    \A i \in TerminalEvents :
        /\ i = Len(chat.events)
        /\ chat.events[i].finish_reason = Some(ExpectedFinishReason)

\* C33 as stated: every request whose stream is over, however it ended, has
\* emitted exactly one terminal event, the last event, "stop" without an
\* exception and "error" with one.
C33_ExactlyOneTerminalEvent ==
    chat.pc \in {"ended", "closed"} =>
        /\ Cardinality(TerminalEvents) = 1
        /\ TerminalEventIsLast

\* C33: at every moment there is at most one terminal event, it is the last
\* event and it is "stop" without an exception and "error" with one; a
\* generator that ran to its end has emitted exactly one; an exception is
\* followed at once by the "error" event.
C33_OneTerminalEventWhenConsumed ==
    /\ Cardinality(TerminalEvents) <= 1
    /\ TerminalEventIsLast
    /\ chat.pc = "ended" => Cardinality(TerminalEvents) = 1
    /\ chat.raised => Cardinality(TerminalEvents) = 1
    /\ chat.pc \in {"create", "next", "yield_content"} => TerminalEvents = {}

\* two content events, then an exception: the stream ran to its end with the
\* "error" event last
C33_Witness ==
    /\ chat.pc = "ended"
    /\ chat.raised
    /\ Len(chat.events) = 3
    /\ IsNone(chat.events[1].finish_reason)
    /\ IsNone(chat.events[2].finish_reason)
    /\ chat.events[3] = ErrorResponse

=============================================================================
